---- MODULE Spec2Model ----
(***************************************************************************)
(* Lamp monitor (src/main.py): the Detection State Machine                 *)
(* (update_detection_state), the Episode Log (data.csv), the Notifier      *)
(* call and the two sampling loops that drive them                         *)
(* (run_camera_with_live_display, run_loop_mode).                          *)
(*                                                                         *)
(* Further specifications over the same variables:                         *)
(*   SpecNotifier  the notifying cycle split at requests.post              *)
(*   SpecCamera    the programs that open the capture device (app.py,      *)
(*                 coordinate_setter.py, main.py)                          *)
(*   SpecModes     Spec and the single-shot run modes                      *)
(*   SpecLog       SpecModes started on the data.csv of earlier runs       *)
(*   SpecScale     a debug-mode and a normal-mode process side by side     *)
(*   SpecJudge     comprehensive_judgment over bounded region results      *)
(*                                                                         *)
(* Time is wall-clock time in centiseconds (1 s = 100).  The clock only    *)
(* moves forward.  Verdict strings: "orange", "green" and "unknown" stand  *)
(* for the source's Japanese verdict strings (orenji, midori, fumei).      *)
(* current_state is None or True in the source; here "None" / "True".      *)
(***************************************************************************)
EXTENDS Integers, Sequences, FiniteSets, TLC

VARIABLES
    pc,                           \* where the monitoring process is
    debug_mode,                   \* main.py:23
    now,                          \* wall clock, centiseconds
    current_state,                \* main.py:20
    orange_detection_start_time,  \* main.py:21
    notification_sent,            \* main.py:22
    last_detection_time,          \* live loop local, main.py:401
    sleep_start,                  \* loop mode: when time.sleep began
    detection_logs,               \* live loop local, main.py:415
    csv_exists,                   \* data.csv is on disk
    csv_header,                   \* data.csv starts with the header row
    data_csv,                     \* the records of data.csv, in file order
    notifier_calls,               \* every notify_teams invocation so far
    ticks, delays,                \* counters that bound the exploration
    last,                         \* observation: what the last step did
    orange_run_start,             \* observation: start of the current unbroken run of orange verdicts
    in_flight,                    \* the requests.post call that has not returned yet
    camera,                       \* per component: where it is in opening the capture device
    camera_report,                \* the component whose last open attempt was refused
    settings,                     \* setting.json as loaded by load_settings
    twin,                         \* two processes fed the same verdicts, one per mode
    extractor,                    \* crop_and_save_all_colors: frame, rectangles, outcome
    settings_api,                 \* POST /api/settings: setting.json, the request, the response
    results,                      \* the list handed to comprehensive_judgment
    verdict,                      \* what comprehensive_judgment returned for it
    verdict_again,                \* what a second call with the same list returned
    startup,                      \* main(): setting.json at start, how far main got, the settings in use
    frame_feed,                   \* streaming/current_frame.jpg, its writer, and one request to a snapshot endpoint
    shutdown,                     \* the live loop as a process: where it is, the capture handle, data.csv and its write buffer
    dashboard,                    \* app.py: the last operation served, what it read, how many were served
    classifier,                   \* analyze_lamp_color: the sub-image, the range preset, the pixel counts
    supervisor,                   \* app.py process control: main_process, the monitor processes alive, the request threads
    config_file,                  \* setting.json under the three writers of coordinates; the coordinate tool's memory
    frame_file                    \* streaming/current_frame.jpg as bytes: the writer in main.py, the reader in app.py

vars == <<pc, debug_mode, now, current_state, orange_detection_start_time,
          notification_sent, last_detection_time, sleep_start, detection_logs,
          csv_exists, csv_header, data_csv, notifier_calls, ticks, delays,
          last, orange_run_start, in_flight, camera, camera_report,
          settings, twin, results, verdict, verdict_again, extractor,
          settings_api,
          startup,
          frame_feed,
          shutdown,
          dashboard,
          classifier,
          supervisor,
          config_file,
          frame_file>>

detection_vars == <<current_state, orange_detection_start_time, notification_sent>>
csv_vars == <<csv_exists, csv_header, data_csv>>
bound_vars == <<ticks, delays>>
\* what the steps of the sampling loops below never write
camera_vars == <<camera, camera_report>>
judge_vars == <<results, verdict, verdict_again>>
aside_vars == <<extractor, settings_api, startup, frame_feed, shutdown, dashboard, classifier, supervisor, config_file, frame_file>>
outside_vars == <<in_flight, camera_vars, settings, twin, judge_vars, aside_vars>>

----------------------------------------------------------------------------
(* Bounds of the exploration and the configured settings (setting.json). *)

MaxTicks == 4
MaxDelays == 1
\* detection.notification_threshold_minutes
ThresholdMinutes == 1
\* detection.debug_notification_threshold_seconds
DebugThresholdSeconds == 2
\* detection.debug_detection_interval_seconds (default)
DebugDetectionIntervalSeconds == 1
\* detection.detection_interval_seconds (default)
DetectionIntervalSeconds == 60
\* len(detection_logs) > 10
MaxDetectionLogs == 10

NoneTime == -1

\* no requests.post call is waiting for its response
NoCall == [mode |-> "none", at |-> NoneTime]

\* comprehensive_judgment has not been called
NoVerdict == [judgment |-> "none", confidence |-> 0, reasons |-> <<>>,
              scores |-> <<>>, length |-> 0]

\* no pair of processes is being compared
NoTwin == [debug |-> <<>>, normal |-> <<>>, pending |-> "none"]

\* the programs that open the capture device: the monitoring process
\* (main_auto.py, live mode), the dashboard's capture_image and
\* coordinate_preview_feed requests, and coordinate_setter.py
Components == {"monitor", "capture", "preview", "setter"}

Verdicts == {"orange", "green", "unknown"}
\* requests.post returned 200, returned another status, or raised
NotifierOutcomes == {"ok", "status", "raise"}

\* one clock tick: 1 s in debug mode, 30 s otherwise
TickCs == IF debug_mode THEN 100 ELSE 3000

----------------------------------------------------------------------------
(* Pure helpers. *)

\* mutant: the minutes are not converted to seconds
get_notification_threshold_unscaled ==
    IF debug_mode THEN settings.debug_notification_threshold_seconds * 100
                  ELSE settings.notification_threshold_minutes * 100

\* the threshold in centiseconds: two keys of setting.json, one per mode
get_notification_threshold ==
    IF debug_mode THEN settings.debug_notification_threshold_seconds * 100
                  ELSE (settings.notification_threshold_minutes * 60) * 100

\* f"{duration_seconds:.1f}": seconds rounded to one decimal, kept in tenths
FormatTenths(cs) == (cs + 5) \div 10

Row(event_type, detection_result, duration_cs) ==
    [event_type |-> event_type,
     detection_result |-> detection_result,
     duration_seconds |-> FormatTenths(duration_cs),
     debug_mode |-> IF debug_mode THEN "debug" ELSE "normal"]

DetectionState(s, t0, n) ==
    [current_state |-> s, orange_detection_start_time |-> t0, notification_sent |-> n]

State == DetectionState(current_state, orange_detection_start_time, notification_sent)

Outcome(st, rows, calls, raised) ==
    [st |-> st, rows |-> rows, calls |-> calls, raised |-> raised]

----------------------------------------------------------------------------
(* update_detection_state, main.py:1063-1150.  Each branch maps the state  *)
(* before, the time t = datetime.now() and the outcome of the notifier     *)
(* call to: the state after, the rows handed to log_to_csv, the notifier   *)
(* invocations made, and whether an exception left the function.           *)

\* mutant: the comparison is off by one second
ThresholdReachedEarly(elapsed) == elapsed >= get_notification_threshold - 100

\* elapsed_seconds >= threshold_seconds, main.py:1088
ThresholdReached(elapsed) == elapsed >= get_notification_threshold

\* mutant: the start time is not recorded
StartedEpisodeNoTime(t) == DetectionState("True", NoneTime, FALSE)

\* main.py:1074-1076
StartedEpisode(t) == DetectionState("True", t, FALSE)

\* mutant: the green branch does not clear notification_sent
ClearedAfterGreenKeepsSent == DetectionState("None", NoneTime, notification_sent)

\* main.py:1128-1130
ClearedAfterGreen == DetectionState("None", NoneTime, FALSE)

\* mutant: the unknown branch does not clear notification_sent
ClearedAfterUnknownKeepsSent == DetectionState("None", NoneTime, notification_sent)

\* main.py:1146-1148
ClearedAfterUnknown == DetectionState("None", NoneTime, FALSE)

\* mutant: the notifying cycle sets notification_sent but logs nothing
NotifyBranchNoRow(st, t, notify) ==
    IF notify = "raise"
    THEN Outcome(st, <<>>, <<notify>>, TRUE)
    ELSE Outcome([st EXCEPT !.notification_sent = TRUE], <<>>, <<notify>>, FALSE)

\* send_notification then notification_sent = True, main.py:1090-1095.
\* requests.post has no try/except around it: when it raises, the exception
\* leaves update_detection_state before notification_sent is set and before
\* the notification row is logged.
NotifyBranch(st, t, notify) ==
    IF notify = "raise"
    THEN Outcome(st, <<>>, <<notify>>, TRUE)
    ELSE Outcome([st EXCEPT !.notification_sent = TRUE],
                 <<Row("notification", "orange", t - st.orange_detection_start_time)>>,
                 <<notify>>, FALSE)

\* mutant: a continuing orange verdict takes the current time as the start
OrangeBranchRestartsClock(st, t, notify) ==
    IF st.current_state # "True" \/ ~ThresholdReached(t - st.orange_detection_start_time)
    THEN Outcome(StartedEpisode(t), <<Row("orange_start", "orange", 0)>>, <<>>, FALSE)
    ELSE NotifyBranch(st, t, notify)

\* main.py:1071-1103
OrangeBranch(st, t, notify) ==
    IF st.current_state # "True"
    THEN Outcome(StartedEpisode(t), <<Row("orange_start", "orange", 0)>>, <<>>, FALSE)
    ELSE IF st.orange_detection_start_time # NoneTime /\ ~st.notification_sent
         THEN IF ThresholdReached(t - st.orange_detection_start_time)
              THEN NotifyBranch(st, t, notify)
              ELSE Outcome(st,
                           <<Row("orange_continue", "orange",
                                 t - st.orange_detection_start_time)>>,
                           <<>>, FALSE)
         ELSE Outcome(st, <<>>, <<>>, FALSE)

\* mutant: the duration is measured from the previous cycle, not from the
\* episode's start
GreenBranchSinceLastCycle(st, t) ==
    IF st.current_state = "True" /\ st.orange_detection_start_time # NoneTime
    THEN Outcome(ClearedAfterGreen,
                 <<Row("orange_end", "green", t - last_detection_time)>>,
                 <<>>, FALSE)
    ELSE Outcome(ClearedAfterGreen, <<Row("green_detection", "green", 0)>>, <<>>, FALSE)

\* main.py:1105-1130 (analyze_orange_durations only reads the log and prints)
GreenBranch(st, t) ==
    IF st.current_state = "True" /\ st.orange_detection_start_time # NoneTime
    THEN Outcome(ClearedAfterGreen,
                 <<Row("orange_end", "green", t - st.orange_detection_start_time)>>,
                 <<>>, FALSE)
    ELSE Outcome(ClearedAfterGreen, <<Row("green_detection", "green", 0)>>, <<>>, FALSE)

\* mutant: an unknown verdict is logged but the episode is kept
UnknownBranchKeepsState(st, judgment, t) ==
    IF st.current_state = "True" /\ st.orange_detection_start_time # NoneTime
    THEN Outcome(st,
                 <<Row("orange_interrupted", judgment,
                       t - st.orange_detection_start_time)>>,
                 <<>>, FALSE)
    ELSE Outcome(ClearedAfterUnknown, <<Row("unknown_detection", judgment, 0)>>,
                 <<>>, FALSE)

\* main.py:1132-1148: "unknown" and every other verdict string
UnknownBranch(st, judgment, t) ==
    IF st.current_state = "True" /\ st.orange_detection_start_time # NoneTime
    THEN Outcome(ClearedAfterUnknown,
                 <<Row("orange_interrupted", judgment,
                       t - st.orange_detection_start_time)>>,
                 <<>>, FALSE)
    ELSE Outcome(ClearedAfterUnknown, <<Row("unknown_detection", judgment, 0)>>,
                 <<>>, FALSE)

\* mutant: every verdict but orange takes the green branch
update_detection_state_two_way(st, judgment, t, notify) ==
    IF judgment = "orange" THEN OrangeBranch(st, t, notify)
    ELSE GreenBranch(st, t)

update_detection_state(st, judgment, t, notify) ==
    IF judgment = "orange" THEN OrangeBranch(st, t, notify)
    ELSE IF judgment = "green" THEN GreenBranch(st, t)
    ELSE UnknownBranch(st, judgment, t)

\* whether this call reaches send_notification
WillNotify(st, judgment, t) ==
    /\ judgment = "orange"
    /\ st.current_state = "True"
    /\ st.orange_detection_start_time # NoneTime
    /\ ~st.notification_sent
    /\ ThresholdReached(t - st.orange_detection_start_time)

\* the notifier outcomes a call can meet: one of the three when it notifies
OutcomesFor(st, judgment, t) ==
    IF WillNotify(st, judgment, t) THEN NotifierOutcomes ELSE {"none"}

----------------------------------------------------------------------------
(* Episode Log, main.py:1176-1226. *)

\* mutant: the log is opened with 'w' at every start
initialize_csv_log_truncating ==
    /\ csv_exists' = TRUE
    /\ csv_header' = TRUE
    /\ data_csv' = <<>>

\* initialize_csv_log: writes the header only when the file does not exist
initialize_csv_log ==
    /\ csv_exists' = TRUE
    /\ csv_header' = IF csv_exists THEN csv_header ELSE TRUE
    /\ data_csv' = data_csv

\* log_to_csv for each row, in order: open(csv_file, 'a') appends
log_to_csv(rows) ==
    /\ data_csv' = data_csv \o rows
    /\ csv_exists' = (csv_exists \/ rows # <<>>)
    /\ csv_header' = csv_header

\* notify_teams invocations, main.py:1056 and 1682-1762
RecordCalls(calls, t) ==
    notifier_calls' = notifier_calls \o [i \in 1..Len(calls) |-> [at |-> t, outcome |-> calls[i]]]

----------------------------------------------------------------------------
(* Observation of the last step, for stating the claims. *)

Obs(op, mode, judgment, notify) ==
    [op |-> op, mode |-> mode, judgment |-> judgment, notifier |-> notify,
     at |-> now, pre |-> State, csv_len |-> Len(data_csv),
     calls_len |-> Len(notifier_calls)]

\* the rows the last step appended to data.csv
Appended == SubSeq(data_csv, last.csv_len + 1, Len(data_csv))

\* the notifier invocations the last step made
Invoked == SubSeq(notifier_calls, last.calls_len + 1, Len(notifier_calls))

\* start of the unbroken run of orange verdicts, after verdict j at time t
RunStartAfter(j, t) ==
    IF j = "orange"
    THEN (IF orange_run_start = NoneTime THEN t ELSE orange_run_start)
    ELSE NoneTime

----------------------------------------------------------------------------
(* The process: module load, the menu, and the start of a loop. *)

\* setting.json of the runs explored below
ConfiguredSettings ==
    [notification_threshold_minutes |-> ThresholdMinutes,
     debug_notification_threshold_seconds |-> DebugThresholdSeconds]

\* module load, main.py:20-23, and the locals of the loops
InitLoops ==
    /\ pc = "menu"
    \* time.time() is an epoch time, far above any interval
    /\ now = DetectionIntervalSeconds * 100
    /\ current_state = "None"
    /\ orange_detection_start_time = NoneTime
    /\ notification_sent = FALSE
    /\ last_detection_time = 0
    /\ sleep_start = 0
    /\ detection_logs = <<>>
    /\ notifier_calls = <<>>
    /\ ticks = 0
    /\ delays = 0
    /\ orange_run_start = NoneTime
    /\ in_flight = NoCall
    /\ camera = [c \in Components |-> "off"]
    /\ camera_report = "none"

\* the concerns with a specification of their own, at rest
NoExtractor == [frame |-> <<>>, coordinates |-> <<>>, crop |-> <<>>]

NoSettingsApi == [stored |-> <<>>, submitted |-> <<>>, response |-> <<>>]

NoStartup == [file |-> <<>>, at |-> "none", in_use |-> <<>>]

NoFrameFeed == [clock |-> 0, file |-> <<>>, main_running |-> FALSE, request |-> <<>>, served |-> <<>>]

NoShutdown == [at |-> "none", cap |-> "none", rows |-> <<>>, buffered |-> <<>>, cycles |-> 0, ended_by |-> "none"]

NoDashboard == [op |-> "none", view |-> <<>>, requests |-> 0]

NoClassifier == [image |-> <<>>, color_mode |-> "none", apply_preprocessing |-> FALSE, color_pixels |-> <<>>]

NoSupervisor == [main_process |-> 0, alive |-> {}, started |-> 0, thread |-> <<>>]

NoConfigFile == [stored |-> <<>>, tool |-> <<>>, by |-> "none"]

NoFrameFile == [content |-> <<>>, writing |-> 0, frames |-> 0, read |-> <<>>]

Idle(skip) ==
    /\ ("extractor" \in skip \/ extractor = NoExtractor)
    /\ ("settings_api" \in skip \/ settings_api = NoSettingsApi)
    /\ ("startup" \in skip \/ startup = NoStartup)
    /\ ("frame_feed" \in skip \/ frame_feed = NoFrameFeed)
    /\ ("shutdown" \in skip \/ shutdown = NoShutdown)
    /\ ("dashboard" \in skip \/ dashboard = NoDashboard)
    /\ ("classifier" \in skip \/ classifier = NoClassifier)
    /\ ("supervisor" \in skip \/ supervisor = NoSupervisor)
    /\ ("config_file" \in skip \/ config_file = NoConfigFile)
    /\ ("frame_file" \in skip \/ frame_file = NoFrameFile)

InitRest ==
    /\ InitLoops
    /\ Idle({})
    /\ results = <<>>
    /\ verdict = NoVerdict
    /\ verdict_again = NoVerdict

\* module load and load_settings: everything but the file system
InitProcess ==
    /\ InitRest
    /\ debug_mode = FALSE
    /\ settings = ConfiguredSettings
    /\ twin = NoTwin

InitObs(csv_len) ==
    [op |-> "init", mode |-> "none", judgment |-> "none", notifier |-> "none",
     at |-> DetectionIntervalSeconds * 100,
     pre |-> DetectionState("None", NoneTime, FALSE), csv_len |-> csv_len,
     calls_len |-> 0]

\* the first start of the program: no data.csv yet
Init ==
    /\ InitProcess
    /\ csv_exists = FALSE
    /\ csv_header = FALSE
    /\ data_csv = <<>>
    /\ last = InitObs(0)

\* the first start of the program, with the concerns named in skip left to
\* the initial condition of their own specification
InitAside(skip) ==
    /\ InitLoops
    /\ Idle(skip)
    /\ results = <<>>
    /\ verdict = NoVerdict
    /\ verdict_again = NoVerdict
    /\ debug_mode = FALSE
    /\ settings = ConfiguredSettings
    /\ twin = NoTwin
    /\ csv_exists = FALSE
    /\ csv_header = FALSE
    /\ data_csv = <<>>
    /\ last = InitObs(0)

\* what earlier runs of the program can have left on disk: nothing, a log
\* made by initialize_csv_log with the records of one episode, or the same
\* records in a log made by log_to_csv alone (no header line)
EarlierRows ==
    <<[event_type |-> "orange_start", detection_result |-> "orange",
       duration_seconds |-> 0, debug_mode |-> "normal"],
      [event_type |-> "orange_end", detection_result |-> "green",
       duration_seconds |-> 600, debug_mode |-> "normal"]>>

EarlierLogs ==
    {[exists |-> FALSE, header |-> FALSE, rows |-> <<>>],
     [exists |-> TRUE, header |-> TRUE, rows |-> EarlierRows],
     [exists |-> TRUE, header |-> FALSE, rows |-> EarlierRows]}

\* a later start of the program
InitLog ==
    /\ InitProcess
    /\ \E f \in EarlierLogs :
          /\ csv_exists = f.exists
          /\ csv_header = f.header
          /\ data_csv = f.rows
    /\ last = InitObs(Len(data_csv))

\* toggle_debug_mode, main.py:1610-1623
toggle_debug_mode(choice) ==
    /\ pc = "menu"
    /\ debug_mode' = choice
    /\ last' = Obs("toggle", "none", "none", "none")
    /\ UNCHANGED <<pc, now, detection_vars, last_detection_time, sleep_start,
                   detection_logs, csv_vars, notifier_calls, bound_vars,
                   orange_run_start,
                   outside_vars>>

\* main.py:388-391 and 1565-1568
ResetDetectionState ==
    /\ current_state' = "None"
    /\ orange_detection_start_time' = NoneTime
    /\ notification_sent' = FALSE

\* run_camera_with_live_display up to the loop, main.py:376-423
StartLive ==
    /\ pc = "menu"
    /\ pc' = "live"
    /\ ResetDetectionState
    /\ initialize_csv_log
    /\ last_detection_time' = 0
    /\ detection_logs' = <<>>
    /\ orange_run_start' = NoneTime
    /\ last' = Obs("start", "live", "none", "none")
    /\ UNCHANGED <<debug_mode, now, sleep_start, notifier_calls, bound_vars,
                   outside_vars>>

\* find_available_camera() is None, or the device does not open: main.py:376-386
LiveCameraUnavailable ==
    /\ pc = "menu"
    /\ pc' = "exited"
    /\ last' = Obs("open_fail", "live", "none", "none")
    /\ UNCHANGED <<debug_mode, now, detection_vars, last_detection_time, sleep_start,
                   detection_logs, csv_vars, notifier_calls, bound_vars,
                   orange_run_start,
                   outside_vars>>

\* run_loop_mode up to the loop, main.py:1539-1573
StartLoop ==
    /\ pc = "menu"
    /\ pc' = "loop"
    /\ ResetDetectionState
    /\ initialize_csv_log
    /\ orange_run_start' = NoneTime
    /\ last' = Obs("start", "loop", "none", "none")
    /\ UNCHANGED <<debug_mode, now, last_detection_time, sleep_start, detection_logs,
                   notifier_calls, bound_vars,
                   outside_vars>>

----------------------------------------------------------------------------
(* run_camera_with_live_display: one pass of the while loop, main.py:425-533 *)

\* main.py:396-400, in centiseconds
detection_interval ==
    IF debug_mode THEN DebugDetectionIntervalSeconds * 100
                  ELSE DetectionIntervalSeconds * 100

\* current_time_unix - last_detection_time >= detection_interval, main.py:438
DetectionDue == now - last_detection_time >= detection_interval

SetState(st) ==
    /\ current_state' = st.current_state
    /\ orange_detection_start_time' = st.orange_detection_start_time
    /\ notification_sent' = st.notification_sent

\* mutant: the error branches reset the Detection State
FailedCycleStateCleared == DetectionState("None", NoneTime, FALSE)

\* the Detection State after a cycle that took an error branch
\* (main.py:476-485): no branch assigns to it
FailedCycleState == State

\* if len(detection_logs) > 10: detection_logs = detection_logs[-10:]
TrimLogs(l) ==
    IF Len(l) > MaxDetectionLogs
    THEN SubSeq(l, Len(l) - MaxDetectionLogs + 1, Len(l))
    ELSE l

\* a due cycle that ends in one of the error branches, main.py:476-485
LiveCycleError(op) ==
    /\ pc = "live"
    /\ DetectionDue
    /\ last_detection_time' = now
    /\ detection_logs' = detection_logs \o <<"DETECTION", "ERROR">>
    /\ SetState(FailedCycleState)
    /\ last' = Obs(op, "live", "none", "none")
    /\ UNCHANGED <<pc, debug_mode, now, sleep_start, csv_vars, notifier_calls,
                   bound_vars, orange_run_start,
                   outside_vars>>

\* crop_and_save_all_colors returned False, main.py:452 and 479-481
LiveCropFail == LiveCycleError("cycle_error")

\* run_analysis_silent gave fewer than two results, main.py:454 and 476-478
LiveIncomplete == LiveCycleError("cycle_error")

\* cropping or analysis raised, main.py:483-485
LiveAnalysisRaise == LiveCycleError("cycle_error")

\* cv2.imwrite(temp_path, frame) returned False, main.py:446: nothing is logged
LiveSaveFail ==
    /\ pc = "live"
    /\ DetectionDue
    /\ last_detection_time' = now
    /\ last' = Obs("save_fail", "live", "none", "none")
    /\ UNCHANGED <<pc, debug_mode, now, detection_vars, sleep_start, detection_logs,
                   csv_vars, notifier_calls, bound_vars, orange_run_start,
                   outside_vars>>

\* a due cycle whose verdict reaches update_detection_state, main.py:455-475;
\* an exception out of it (the notifier's) is caught at main.py:483-485
LiveDetect(judgment, notify) ==
    /\ pc = "live"
    /\ DetectionDue
    /\ notify \in OutcomesFor(State, judgment, now)
    /\ LET r == update_detection_state(State, judgment, now, notify)
       IN  /\ SetState(r.st)
           /\ log_to_csv(r.rows)
           /\ RecordCalls(r.calls, now)
           /\ detection_logs' =
                  IF r.raised
                  THEN detection_logs \o <<"DETECTION", "ERROR">>
                  ELSE TrimLogs(detection_logs \o <<"DETECTION", "RESULT">>)
    /\ last_detection_time' = now
    /\ orange_run_start' = RunStartAfter(judgment, now)
    /\ last' = Obs("detect", "live", judgment, notify)
    /\ UNCHANGED <<pc, debug_mode, now, sleep_start, bound_vars,
                   outside_vars>>

\* ret, frame = cap.read() with ret False: logged, then break, main.py:428-431;
\* the finally block releases the camera and the function returns
LiveFrameReadFail ==
    /\ pc = "live"
    /\ pc' = "exited"
    /\ detection_logs' = Append(detection_logs, "ERROR")
    /\ last' = Obs("frame_fail", "live", "none", "none")
    /\ UNCHANGED <<debug_mode, now, detection_vars, last_detection_time, sleep_start,
                   csv_vars, notifier_calls, bound_vars, orange_run_start,
                   outside_vars>>

\* ESC or 'q', or KeyboardInterrupt, main.py:529-546
LiveQuit ==
    /\ pc = "live"
    /\ pc' = "exited"
    /\ last' = Obs("quit", "live", "none", "none")
    /\ UNCHANGED <<debug_mode, now, detection_vars, last_detection_time, sleep_start,
                   detection_logs, csv_vars, notifier_calls, bound_vars,
                   orange_run_start,
                   outside_vars>>

----------------------------------------------------------------------------
(* run_loop_mode, main.py:1575-1608, around process_single_analysis *)

\* time.sleep(actual_interval), in centiseconds: main.py:1592-1603 with the
\* interval main() passes, main.py:1785
LoopSleepCs == IF debug_mode THEN 100 ELSE 6000

\* process_single_analysis returned False, main.py:1412-1431
LoopCycleFailed(op) ==
    /\ pc = "loop"
    /\ pc' = "sleep"
    /\ sleep_start' = now
    /\ last' = Obs(op, "loop", "none", "none")
    /\ UNCHANGED <<debug_mode, now, detection_vars, last_detection_time,
                   detection_logs, csv_vars, notifier_calls, bound_vars,
                   orange_run_start,
                   outside_vars>>

\* image_path is None, main.py:1412-1414
LoopNoImage == LoopCycleFailed("cycle_failed")

\* main.py:1421-1423
LoopCropFail == LoopCycleFailed("cycle_failed")

\* run_analysis returned no result, main.py:1429-1431
LoopNoResults == LoopCycleFailed("cycle_failed")

\* exactly one result: comprehensive_judgment returns three values
\* (main.py:920-921) and the four-name unpacking at main.py:1437 raises;
\* run_loop_mode catches only KeyboardInterrupt
LoopOneResult ==
    /\ pc = "loop"
    /\ pc' = "exited"
    /\ last' = Obs("cycle_raise", "loop", "none", "none")
    /\ UNCHANGED <<debug_mode, now, detection_vars, last_detection_time, sleep_start,
                   detection_logs, csv_vars, notifier_calls, bound_vars,
                   orange_run_start,
                   outside_vars>>

\* main.py:1437-1515; an exception out of update_detection_state ends the loop
LoopDetect(judgment, notify) ==
    /\ pc = "loop"
    /\ notify \in OutcomesFor(State, judgment, now)
    /\ LET r == update_detection_state(State, judgment, now, notify)
       IN  /\ SetState(r.st)
           /\ log_to_csv(r.rows)
           /\ RecordCalls(r.calls, now)
           /\ pc' = IF r.raised THEN "exited" ELSE "sleep"
    /\ sleep_start' = now
    /\ orange_run_start' = RunStartAfter(judgment, now)
    /\ last' = Obs("detect", "loop", judgment, notify)
    /\ UNCHANGED <<debug_mode, now, last_detection_time, detection_logs, bound_vars,
                   outside_vars>>

\* time.sleep returns
LoopWake ==
    /\ pc = "sleep"
    /\ now - sleep_start >= LoopSleepCs
    /\ pc' = "loop"
    /\ last' = Obs("wake", "loop", "none", "none")
    /\ UNCHANGED <<debug_mode, now, detection_vars, last_detection_time, sleep_start,
                   detection_logs, csv_vars, notifier_calls, bound_vars,
                   orange_run_start,
                   outside_vars>>

\* KeyboardInterrupt, main.py:1605-1608
LoopInterrupt ==
    /\ pc \in {"loop", "sleep"}
    /\ pc' = "exited"
    /\ last' = Obs("interrupt", "loop", "none", "none")
    /\ UNCHANGED <<debug_mode, now, detection_vars, last_detection_time, sleep_start,
                   detection_logs, csv_vars, notifier_calls, bound_vars,
                   orange_run_start,
                   outside_vars>>

----------------------------------------------------------------------------
(* The clock. *)

\* time passes while the live loop waits for the next due cycle or the loop
\* mode sleeps
Tick ==
    /\ \/ pc = "live" /\ ~DetectionDue
       \/ pc = "sleep" /\ now - sleep_start < LoopSleepCs
    /\ ticks < MaxTicks
    /\ ticks' = ticks + 1
    /\ now' = now + TickCs
    /\ last' = Obs("tick", "none", "none", "none")
    /\ UNCHANGED <<pc, debug_mode, detection_vars, last_detection_time, sleep_start,
                   detection_logs, csv_vars, notifier_calls, delays,
                   orange_run_start,
                   outside_vars>>

\* a blocking call (frame acquisition, file I/O) takes 0.04 s
Delay ==
    /\ pc \in {"live", "loop", "sleep"}
    /\ delays < MaxDelays
    /\ delays' = delays + 1
    /\ now' = now + 4
    /\ last' = Obs("delay", "none", "none", "none")
    /\ UNCHANGED <<pc, debug_mode, detection_vars, last_detection_time, sleep_start,
                   detection_logs, csv_vars, notifier_calls, ticks,
                   orange_run_start,
                   outside_vars>>

----------------------------------------------------------------------------

Next ==
    \/ \E choice \in BOOLEAN : toggle_debug_mode(choice)
    \/ StartLive
    \/ LiveCameraUnavailable
    \/ StartLoop
    \/ LiveCropFail
    \/ LiveIncomplete
    \/ LiveAnalysisRaise
    \/ LiveSaveFail
    \/ \E j \in Verdicts, n \in NotifierOutcomes \cup {"none"} : LiveDetect(j, n)
    \/ LiveFrameReadFail
    \/ LiveQuit
    \/ LoopNoImage
    \/ LoopCropFail
    \/ LoopNoResults
    \/ LoopOneResult
    \/ \E j \in Verdicts, n \in NotifierOutcomes \cup {"none"} : LoopDetect(j, n)
    \/ LoopWake
    \/ LoopInterrupt
    \/ Tick
    \/ Delay

Spec == Init /\ [][Next]_vars

----------------------------------------------------------------------------
(* The notifying cycle in two steps: requests.post(webhook_url, json=payload) *)
(* at main.py:1756 is called without a timeout, inside send_notification     *)
(* (main.py:1056), inside update_detection_state (main.py:1090).  The call   *)
(* is entered, time passes, and only its return lets the cycle go on.        *)

\* the cycle reaches send_notification and requests.post blocks
NotifyCall(mode) ==
    /\ pc = mode
    /\ mode = "live" => DetectionDue
    /\ WillNotify(State, "orange", now)
    /\ pc' = "notifying"
    /\ in_flight' = [mode |-> mode, at |-> now]
    /\ last_detection_time' = IF mode = "live" THEN now ELSE last_detection_time
    /\ detection_logs' = IF mode = "live" THEN Append(detection_logs, "DETECTION")
                                          ELSE detection_logs
    /\ orange_run_start' = RunStartAfter("orange", now)
    /\ last' = Obs("notify_call", mode, "orange", "none")
    /\ UNCHANGED <<debug_mode, now, detection_vars, sleep_start, csv_vars,
                   notifier_calls, bound_vars, camera_vars, settings, aside_vars, twin,
                   judge_vars>>

\* the response has not arrived yet: the process waits inside requests.post
NotifyWait ==
    /\ pc = "notifying"
    /\ ticks < MaxTicks
    /\ ticks' = ticks + 1
    /\ now' = now + TickCs
    /\ last' = Obs("notify_wait", in_flight.mode, "orange", "none")
    /\ UNCHANGED <<pc, debug_mode, detection_vars, last_detection_time, sleep_start,
                   detection_logs, csv_vars, notifier_calls, delays,
                   orange_run_start, in_flight, camera_vars, settings, aside_vars, twin,
                   judge_vars>>

\* requests.post returns or raises; the rest of the cycle runs:
\* main.py:1091-1095, then main.py:457-475 or 483-485 (live), 1592-1603 (loop)
NotifyReturn(notify) ==
    /\ pc = "notifying"
    /\ notify \in NotifierOutcomes
    /\ LET r == NotifyBranch(State, in_flight.at, notify)
       IN  /\ SetState(r.st)
           /\ log_to_csv(r.rows)
           /\ RecordCalls(r.calls, in_flight.at)
           /\ pc' = IF in_flight.mode = "live" THEN "live"
                    ELSE IF r.raised THEN "exited" ELSE "sleep"
           /\ detection_logs' =
                  IF in_flight.mode # "live" THEN detection_logs
                  ELSE IF r.raised THEN Append(detection_logs, "ERROR")
                  ELSE TrimLogs(Append(detection_logs, "RESULT"))
    /\ sleep_start' = IF in_flight.mode = "loop" THEN now ELSE sleep_start
    /\ in_flight' = NoCall
    /\ last' = Obs("notify_return", in_flight.mode, "orange", notify)
    /\ UNCHANGED <<debug_mode, now, last_detection_time, bound_vars,
                   orange_run_start, camera_vars, settings, aside_vars, twin, judge_vars>>

NextNotifier ==
    \/ Next
    \/ \E mode \in {"live", "loop"} : NotifyCall(mode)
    \/ NotifyWait
    \/ \E n \in NotifierOutcomes : NotifyReturn(n)

SpecNotifier == Init /\ [][NextNotifier]_vars

----------------------------------------------------------------------------
(* The capture device and the programs that open it.  Every one of them    *)
(* does  camera_index = find_available_camera();                            *)
(* cap = cv2.VideoCapture(camera_index); if not cap.isOpened(): report      *)
(* and holds the handle until cap.release().  None of them looks at what    *)
(* the others are doing, except start_coordinate_setter, which stops the    *)
(* monitoring process first.  Whether a second VideoCapture on a device     *)
(* that is already open succeeds is the driver's choice.                    *)

Holders == {c \in Components : camera[c] = "open"}

\* the results cap.isOpened() can have
DriverGrants == IF Holders = {} THEN {TRUE} ELSE BOOLEAN

\* the rest of the state belongs to the monitoring process's own run
MonitorRunUnchanged ==
    UNCHANGED <<pc, debug_mode, now, detection_vars, last_detection_time,
                sleep_start, detection_logs, csv_vars, notifier_calls, bound_vars,
                last, orange_run_start, in_flight, settings, aside_vars, twin, judge_vars>>

\* a component is started and gets a camera index from find_available_camera
BeginOpen(c) ==
    /\ camera[c] = "off"
    /\ camera' = [camera EXCEPT ![c] = "opening"]
    /\ UNCHANGED camera_report
    /\ MonitorRunUnchanged

\* cap = cv2.VideoCapture(camera_index); if not cap.isOpened(): report, return
OpenDevice(c, granted) ==
    /\ camera[c] = "opening"
    /\ granted \in DriverGrants
    /\ camera' = [camera EXCEPT ![c] = IF granted THEN "open" ELSE "off"]
    /\ camera_report' = IF granted THEN camera_report ELSE c
    /\ MonitorRunUnchanged

\* cap.release()
ReleaseDevice(c) ==
    /\ camera[c] = "open"
    /\ camera' = [camera EXCEPT ![c] = "off"]
    /\ UNCHANGED camera_report
    /\ MonitorRunUnchanged

\* app.py:109-134: Popen(main_auto.py) unless is_main_running()
start_main_process == BeginOpen("monitor")

\* main.py:376-386
MonitorOpen(granted) == OpenDevice("monitor", granted)

\* app.py:136-160: terminate() ends the process and with it its handle
stop_main_process ==
    /\ camera["monitor"] # "off"
    /\ camera' = [camera EXCEPT !["monitor"] = "off"]
    /\ UNCHANGED camera_report
    /\ MonitorRunUnchanged

\* app.py:349-400
capture_image_begin == BeginOpen("capture")

capture_image_open(granted) == OpenDevice("capture", granted)

capture_image_release == ReleaseDevice("capture")

\* app.py:571-608
coordinate_preview_feed_begin == BeginOpen("preview")

coordinate_preview_feed_open(granted) == OpenDevice("preview", granted)

coordinate_preview_feed_release == ReleaseDevice("preview")

\* app.py:519-543: if is_main_running(): stop_main_process(); then
\* Popen(coordinate_setter.py)
start_coordinate_setter ==
    /\ camera["setter"] = "off"
    /\ camera' = [camera EXCEPT !["monitor"] = "off", !["setter"] = "opening"]
    /\ UNCHANGED camera_report
    /\ MonitorRunUnchanged

\* coordinate_setter.py:221-230
run_coordinate_setter_open(granted) == OpenDevice("setter", granted)

\* coordinate_setter.py:291-295
run_coordinate_setter_exit == ReleaseDevice("setter")

NextCamera ==
    \/ start_main_process
    \/ \E g \in BOOLEAN : MonitorOpen(g)
    \/ stop_main_process
    \/ capture_image_begin
    \/ \E g \in BOOLEAN : capture_image_open(g)
    \/ capture_image_release
    \/ coordinate_preview_feed_begin
    \/ \E g \in BOOLEAN : coordinate_preview_feed_open(g)
    \/ coordinate_preview_feed_release
    \/ start_coordinate_setter
    \/ \E g \in BOOLEAN : run_coordinate_setter_open(g)
    \/ run_coordinate_setter_exit

SpecCamera == Init /\ [][NextCamera]_vars

----------------------------------------------------------------------------
(* The single-shot modes: run_fixed_file_mode, run_target_file_mode and     *)
(* run_camera_mode (main.py:1517-1537) call process_single_analysis once    *)
(* and return.  They do not call initialize_csv_log.                        *)

\* process_single_analysis reaches update_detection_state, main.py:1437-1515
SingleShotDetect(judgment) ==
    /\ pc = "menu"
    /\ pc' = "exited"
    /\ LET r == update_detection_state(State, judgment, now, "none")
       IN  /\ SetState(r.st)
           /\ log_to_csv(r.rows)
           /\ RecordCalls(r.calls, now)
    /\ orange_run_start' = RunStartAfter(judgment, now)
    /\ last' = Obs("detect", "single", judgment, "none")
    /\ UNCHANGED <<debug_mode, now, last_detection_time, sleep_start, detection_logs,
                   bound_vars, outside_vars>>

\* process_single_analysis returned False, main.py:1412-1431
SingleShotFailed ==
    /\ pc = "menu"
    /\ pc' = "exited"
    /\ last' = Obs("cycle_failed", "single", "none", "none")
    /\ UNCHANGED <<debug_mode, now, detection_vars, last_detection_time, sleep_start,
                   detection_logs, csv_vars, notifier_calls, bound_vars,
                   orange_run_start, outside_vars>>

NextModes ==
    \/ Next
    \/ \E j \in Verdicts : SingleShotDetect(j)
    \/ SingleShotFailed

SpecModes == Init /\ [][NextModes]_vars

\* every run mode, started on whatever earlier runs left on disk
SpecLog == InitLog /\ [][NextModes]_vars

----------------------------------------------------------------------------
(* The dashboard's reader of the Episode Log, app.py:1241-1267. *)

\* one dictionary of all_data: float() of a one-decimal text is that value;
\* the debug_mode column is not copied
ReadRecord(r) ==
    [event_type |-> r.event_type,
     detection_result |-> r.detection_result,
     duration_seconds |-> r.duration_seconds]

\* csv.DictReader takes the first line of the file as the field names.  In
\* a file without the header line that is the first record, and
\* row['debug_mode'] then raises KeyError on the next one: the except
\* branch returns [].
load_all_detection_data ==
    IF ~csv_exists THEN <<>>
    ELSE IF ~csv_header THEN <<>>
    ELSE LET kept == SelectSeq(data_csv, LAMBDA r : r.debug_mode = "normal")
         IN  [i \in 1..Len(kept) |-> ReadRecord(kept[i])]

----------------------------------------------------------------------------
(* Vocabulary of the claims. *)

\* the configured debounce threshold, in centiseconds
ConfiguredThresholdCs ==
    IF debug_mode THEN DebugThresholdSeconds * 100 ELSE ThresholdMinutes * 6000

Cleared == DetectionState("None", NoneTime, FALSE)

\* the last step delivered verdict j to the state machine
Judged(j) == last.op = "detect" /\ last.judgment = j

WasActive == last.pre.current_state = "True"

\* wall-clock time from the episode's start to the last step
ElapsedAtLast == last.at - last.pre.orange_detection_start_time

\* the last step was an orange verdict in an active, not yet notified episode
\* whose elapsed time has reached the threshold
DueCycle ==
    /\ Judged("orange")
    /\ WasActive
    /\ ~last.pre.notification_sent
    /\ ElapsedAtLast >= ConfiguredThresholdCs

EventsOf(rows) == [i \in 1..Len(rows) |-> rows[i].event_type]

CountEvent(rows, e) == Cardinality({i \in 1..Len(rows) : rows[i].event_type = e})

\* index of the last orange_start row of the log, 0 when there is none
LastStartIndex ==
    LET S == {i \in 1..Len(data_csv) : data_csv[i].event_type = "orange_start"}
    IN  IF S = {} THEN 0 ELSE CHOOSE i \in S : \A k \in S : k <= i

\* the rows of the episode now active: from its orange_start row on
EpisodeRows == SubSeq(data_csv, LastStartIndex, Len(data_csv))

\* the notifier invocations made during the episode now active
EpisodeNotifierCalls ==
    Cardinality({i \in 1..Len(notifier_calls) :
                    notifier_calls[i].at > orange_detection_start_time})

\* d tenths of a second is cs centiseconds rounded to the nearest tenth
NearestTenth(d, cs) == 10 * d - cs <= 5 /\ cs - 10 * d <= 5

----------------------------------------------------------------------------
(* Two processes side by side: one started in debug mode, one in normal    *)
(* mode, both with the same setting.json.  Each verdict is delivered to    *)
(* the debug process at time t and to the normal process at time 60 t.     *)
(* debug_mode is the flag of the process whose cycle runs next, so that    *)
(* both cycles go through update_detection_state as defined above.         *)

TwinMaxCycles == 4
ScaleFactor == 60
\* time between two cycles of the debug process, centiseconds
TwinStepsCs == {50, 100}
\* the values the two threshold keys of setting.json take
ThresholdChoices == 1..2

FreshRun == [st |-> DetectionState("None", NoneTime, FALSE), events |-> <<>>]

\* the run after update_detection_state(judgment) at time t
AfterCycle(run, judgment, t) ==
    LET r == update_detection_state(run.st, judgment, t, "ok")
    IN  [st |-> r.st, events |-> run.events \o EventsOf(r.rows)]

InitScale ==
    /\ InitRest
    /\ debug_mode = TRUE
    /\ settings \in [notification_threshold_minutes : ThresholdChoices,
                     debug_notification_threshold_seconds : ThresholdChoices]
    /\ twin = [debug |-> FreshRun, normal |-> FreshRun, pending |-> "none"]
    /\ csv_exists = FALSE
    /\ csv_header = FALSE
    /\ data_csv = <<>>
    /\ last = InitObs(0)

TwinUnchanged ==
    UNCHANGED <<pc, detection_vars, last_detection_time, sleep_start, detection_logs,
                csv_vars, notifier_calls, delays, last, orange_run_start, in_flight,
                camera_vars, settings, aside_vars, judge_vars>>

\* a cycle of the debug process, dt after its previous one
TwinDebugCycle(judgment, dt) ==
    /\ debug_mode
    /\ twin.pending = "none"
    /\ ticks < TwinMaxCycles
    /\ ticks' = ticks + 1
    /\ now' = now + dt
    /\ twin' = [twin EXCEPT !.debug = AfterCycle(@, judgment, now + dt),
                            !.pending = judgment]
    /\ debug_mode' = FALSE
    /\ TwinUnchanged

\* the same verdict in the normal process, at the scaled time
TwinNormalCycle ==
    /\ ~debug_mode
    /\ twin.pending # "none"
    /\ twin' = [twin EXCEPT !.normal = AfterCycle(@, twin.pending, ScaleFactor * now),
                            !.pending = "none"]
    /\ debug_mode' = TRUE
    /\ UNCHANGED <<now, ticks>>
    /\ TwinUnchanged

NextScale ==
    \/ \E j \in Verdicts, dt \in TwinStepsCs : TwinDebugCycle(j, dt)
    \/ TwinNormalCycle

SpecScale == InitScale /\ [][NextScale]_vars

\* the two runs have made the same transitions and written the same event
\* kinds, and their episode starts differ by the scale factor
ScaleEquivalent ==
    LET d == twin.debug
        n == twin.normal
    IN  /\ d.events = n.events
        /\ d.st.current_state = n.st.current_state
        /\ d.st.notification_sent = n.st.notification_sent
        /\ n.st.orange_detection_start_time =
              IF d.st.orange_detection_start_time = NoneTime THEN NoneTime
              ELSE ScaleFactor * d.st.orange_detection_start_time

\* both processes have run the same number of cycles
TwinInStep == twin # NoTwin /\ twin.pending = "none"

\* the two threshold keys hold the same number
SameNumber ==
    settings.notification_threshold_minutes
        = settings.debug_notification_threshold_seconds

----------------------------------------------------------------------------
(* comprehensive_judgment, main.py:918-1011.  A result is the dictionary    *)
(* analyze_single_image_silent returns for one cropped region; percentage   *)
(* in percent, brightness 0..255, expected_pixels a pixel count.            *)

\* get_setting defaults, main.py:924-926
color_detection_threshold_percentage == 50
brightness_threshold_high == 100
minimum_pixel_count == 100
\* main.py:948, 950, 1009
BrightnessBonus == 15
PixelBonus == 10
MaxConfidence == 95

Min(a, b) == IF a <= b THEN a ELSE b

\* mutant: the earlier looser policy, the percentage alone decides
all_conditions_met_loose(result) ==
    result.percentage >= color_detection_threshold_percentage

\* main.py:953-955
all_conditions_met(result) ==
    /\ result.percentage >= color_detection_threshold_percentage
    /\ result.brightness >= brightness_threshold_high
    /\ result.expected_pixels >= minimum_pixel_count

\* main.py:944-950
score(result) ==
    (IF result.percentage >= color_detection_threshold_percentage
     THEN result.percentage ELSE 0)
    + (IF result.brightness >= brightness_threshold_high THEN BrightnessBonus ELSE 0)
    + (IF result.expected_pixels >= minimum_pixel_count THEN PixelBonus ELSE 0)

\* scores[color] = {...}, main.py:957-967, in the order of the results
ScoreEntry(result) ==
    [color |-> result.expected_color,
     score |-> score(result),
     percentage |-> result.percentage,
     brightness |-> result.brightness,
     expected_pixels |-> result.expected_pixels,
     all_conditions_met |-> all_conditions_met(result)]

\* the conditions an entry fails, main.py:996-1002
failed_conditions(e) ==
    {c \in {"percentage", "brightness", "pixels"} :
        \/ c = "percentage" /\ e.percentage < color_detection_threshold_percentage
        \/ c = "brightness" /\ e.brightness < brightness_threshold_high
        \/ c = "pixels" /\ e.expected_pixels < minimum_pixel_count}

\* reasons of a colour verdict, main.py:985-1004: the lines about the best
\* colour, then one line for each other colour that failed a condition
reasons_for(best, scores) ==
    LET others == SelectSeq(scores, LAMBDA e : e.color # best.color
                                               /\ ~e.all_conditions_met)
    IN  <<[kind |-> "met", color |-> best.color, percentage |-> best.percentage,
           brightness |-> best.brightness, expected_pixels |-> best.expected_pixels]>>
        \o [i \in 1..Len(others) |->
               [kind |-> "short", color |-> others[i].color,
                failed |-> failed_conditions(others[i])]]

\* mutant: the first region that meets the conditions wins
best_color_first(valid_colors) == valid_colors[1]

\* mutant: the last entry with the greatest score
best_color_last(valid_colors) ==
    LET top == CHOOSE i \in 1..Len(valid_colors) :
                   /\ \A k \in 1..Len(valid_colors) :
                          valid_colors[k].score <= valid_colors[i].score
                   /\ \A k \in (i + 1)..Len(valid_colors) :
                          valid_colors[k].score < valid_colors[i].score
    IN  valid_colors[top]

\* max(valid_colors, key=score), main.py:982: the first entry with the
\* greatest score
best_color(valid_colors) ==
    LET top == CHOOSE i \in 1..Len(valid_colors) :
                   /\ \A k \in 1..Len(valid_colors) :
                          valid_colors[k].score <= valid_colors[i].score
                   /\ \A k \in 1..(i - 1) :
                          valid_colors[k].score < valid_colors[i].score
    IN  valid_colors[top]

\* mutant: the score is returned as it is
confidence_uncapped(best) == best.score

\* confidence = min(95, color_data['score']), main.py:1009
confidence_of(best) == Min(MaxConfidence, best.score)

\* mutant: the confidence is raised to the maximum while an episode is active
comprehensive_judgment_sticky(res) ==
    IF Len(res) # 2
    THEN [judgment |-> "incomplete", confidence |-> 0,
          reasons |-> <<[kind |-> "incomplete"]>>, scores |-> <<>>, length |-> 3]
    ELSE LET scores == [i \in 1..Len(res) |-> ScoreEntry(res[i])]
             valid_colors == SelectSeq(scores, LAMBDA e : e.all_conditions_met)
         IN  IF valid_colors = <<>>
             THEN [judgment |-> "unknown", confidence |-> 0,
                   reasons |-> <<[kind |-> "none_met"], [kind |-> "required"]>>,
                   scores |-> scores, length |-> 4]
             ELSE [judgment |-> best_color(valid_colors).color,
                   confidence |-> IF current_state = "True" THEN MaxConfidence
                                  ELSE confidence_of(best_color(valid_colors)),
                   reasons |-> reasons_for(best_color(valid_colors), scores),
                   scores |-> scores, length |-> 4]

\* The returned tuple as a record; length is the number of its elements:
\* three at main.py:921 (no scores), four at main.py:980 and 1011.
\* "incomplete" stands for the verdict string hantei-fuka of main.py:921.
comprehensive_judgment(res) ==
    IF Len(res) # 2
    THEN [judgment |-> "incomplete", confidence |-> 0,
          reasons |-> <<[kind |-> "incomplete"]>>, scores |-> <<>>, length |-> 3]
    ELSE LET scores == [i \in 1..Len(res) |-> ScoreEntry(res[i])]
             valid_colors == SelectSeq(scores, LAMBDA e : e.all_conditions_met)
         IN  IF valid_colors = <<>>
             THEN [judgment |-> "unknown", confidence |-> 0,
                   reasons |-> <<[kind |-> "none_met"], [kind |-> "required"]>>,
                   scores |-> scores, length |-> 4]
             ELSE [judgment |-> best_color(valid_colors).color,
                   confidence |-> confidence_of(best_color(valid_colors)),
                   reasons |-> reasons_for(best_color(valid_colors), scores),
                   scores |-> scores, length |-> 4]

\* the regions the extractor can hand over: run_analysis_silent analyses
\* green.png, then orange.png (main.py:1333-1336)
Percentages == {10, 49, 50, 60, 70, 71, 80, 100}
Brightnesses == {99, 100, 150}
PixelCounts == {99, 100, 2000}

RegionResults(color) ==
    [expected_color : {color}, percentage : Percentages,
     brightness : Brightnesses, expected_pixels : PixelCounts]

\* the two regions of Scenario A
ScenarioGreen ==
    [expected_color |-> "green", percentage |-> 10, brightness |-> 99,
     expected_pixels |-> 99]
ScenarioOrange ==
    [expected_color |-> "orange", percentage |-> 80, brightness |-> 150,
     expected_pixels |-> 2000]

ResultLists ==
    {<<g, o>> : g \in RegionResults("green"), o \in RegionResults("orange")}
    \cup {<<g>> : g \in RegionResults("green")}
    \cup {<<g, o, g>> : g \in {ScenarioGreen}, o \in {ScenarioOrange}}
    \cup {<<>>}

InitJudge ==
    /\ InitLoops
    /\ debug_mode = FALSE
    /\ settings = ConfiguredSettings
    /\ twin = NoTwin
    /\ csv_exists = FALSE
    /\ csv_header = FALSE
    /\ data_csv = <<>>
    /\ last = InitObs(0)
    /\ results \in ResultLists
    /\ verdict = NoVerdict
    /\ verdict_again = NoVerdict
    /\ Idle({})

Judge ==
    /\ verdict = NoVerdict
    /\ verdict' = comprehensive_judgment(results)
    /\ UNCHANGED <<pc, debug_mode, now, detection_vars, last_detection_time,
                   sleep_start, detection_logs, csv_vars, notifier_calls, bound_vars,
                   last, orange_run_start, in_flight, camera_vars, settings, aside_vars, twin,
                   results, verdict_again>>

\* the verdict goes to update_detection_state, main.py:455-457 and 1488;
\* only a complete result gets there
JudgeDeliver ==
    /\ verdict # NoVerdict
    /\ verdict.judgment \in Verdicts
    /\ verdict_again = NoVerdict
    /\ last.op = "init"
    /\ LET r == update_detection_state(State, verdict.judgment, now, "none")
       IN  /\ SetState(r.st)
           /\ log_to_csv(r.rows)
           /\ RecordCalls(r.calls, now)
    /\ orange_run_start' = RunStartAfter(verdict.judgment, now)
    /\ last' = Obs("detect", "single", verdict.judgment, "none")
    /\ UNCHANGED <<pc, debug_mode, now, last_detection_time, sleep_start,
                   detection_logs, bound_vars, in_flight, camera_vars, settings, aside_vars, twin,
                   judge_vars>>

\* the next cycle finds the same region results
JudgeAgain ==
    /\ verdict # NoVerdict
    /\ verdict_again = NoVerdict
    /\ verdict_again' = comprehensive_judgment(results)
    /\ UNCHANGED <<pc, debug_mode, now, detection_vars, last_detection_time,
                   sleep_start, detection_logs, csv_vars, notifier_calls, bound_vars,
                   last, orange_run_start, in_flight, camera_vars, settings, aside_vars, twin,
                   results, verdict>>

NextJudge ==
    \/ Judge
    \/ JudgeDeliver
    \/ JudgeAgain

SpecJudge == InitJudge /\ [][NextJudge]_vars

\* the claims' reading of the three conditions
MeetsAllThree(r) ==
    /\ r.percentage >= color_detection_threshold_percentage
    /\ r.brightness >= brightness_threshold_high
    /\ r.expected_pixels >= minimum_pixel_count

\* comprehensive_judgment has returned for two regions
Judged2 == verdict # NoVerdict /\ Len(results) = 2

\* the regions of the input that meet all three conditions
Passing == {i \in 1..Len(results) : MeetsAllThree(results[i])}

----------------------------------------------------------------------------
(* C1 *)

\* C1 (as stated): while an episode is active the Notifier has been invoked
\* at most once in it and at most one notification row was written for it,
\* and the first cycle whose elapsed time reaches the threshold writes that
\* notification row.
C1_ExactlyOneNotification ==
    /\ current_state = "True" =>
          /\ EpisodeNotifierCalls <= 1
          /\ CountEvent(EpisodeRows, "notification") <= 1
    /\ DueCycle =>
          /\ EventsOf(Appended) = <<"notification">>
          /\ CountEvent(EpisodeRows, "notification") = 1

----------------------------------------------------------------------------
(* C2 *)

\* C2: a step invokes the Notifier, or writes a notification row, only when
\* it is an orange verdict arriving in a state that was already active and
\* not notified, with now - episode_start >= threshold.
C2_NotifierOnlyWhenDue ==
    (Invoked # <<>> \/ CountEvent(Appended, "notification") > 0) => DueCycle

C2_Witness ==
    /\ Invoked # <<>>
    /\ CountEvent(Appended, "notification") = 1
    /\ notification_sent

----------------------------------------------------------------------------
(* C3 *)

\* C3 (as stated, in its finite form): after the first cycle at or after
\* episode_start + threshold of an unbroken orange run, a notification has
\* been fired and notified is true.
C3_NotifiedAtFirstDueCycle ==
    DueCycle => (Invoked # <<>> /\ notification_sent)

----------------------------------------------------------------------------
(* C4 *)

\* C4: the episode start time is set exactly when the alert state is active.
C4_StartIffActive ==
    (orange_detection_start_time # NoneTime) <=> (current_state = "True")

\* an episode was started, ended by a green verdict, and a new one started
C4_Witness ==
    /\ Judged("orange")
    /\ ~WasActive
    /\ current_state = "True"
    /\ CountEvent(data_csv, "orange_end") > 0

----------------------------------------------------------------------------
(* C5 *)

\* C5: notification_sent is true only while the alert state is active.
C5_NotifiedOnlyWhileActive ==
    notification_sent => current_state = "True"

\* a notified episode has just been ended by a green verdict
C5_Witness ==
    /\ Judged("green")
    /\ WasActive
    /\ last.pre.notification_sent
    /\ ~notification_sent

----------------------------------------------------------------------------
(* C6 *)

\* C6: after any non-alert verdict the Detection State is fully cleared
\* (inactive, no start time, not notified), whatever it was before.
C6_NonAlertClears ==
    (last.op = "detect" /\ last.judgment # "orange") => State = Cleared

\* an unknown verdict has just cleared an active, notified episode
C6_Witness ==
    /\ Judged("unknown")
    /\ WasActive
    /\ last.pre.notification_sent
    /\ State = Cleared

----------------------------------------------------------------------------
(* C7 *)

GreenEndsEpisode == Judged("green") /\ WasActive

----------------------------------------------------------------------------
(* C8 *)

----------------------------------------------------------------------------
(* C9 *)

\* the last step was a live cycle that failed in extraction or analysis
LiveCycleFailed ==
    /\ last.mode = "live"
    /\ \/ last.op = "cycle_error"
       \/ last.op = "detect" /\ last.notifier = "raise"

\* C9: a live cycle in which cropping fails, fewer than two results come
\* back or the analysis raises leaves the Detection State as it was before
\* the cycle, and the cycle's last log line is an ERROR line.
C9_FailedCycleKeepsState ==
    LiveCycleFailed =>
        /\ State = last.pre
        /\ detection_logs # <<>>
        /\ detection_logs[Len(detection_logs)] = "ERROR"

\* a cycle failed in the middle of an active, notified episode
C9_Witness ==
    /\ last.op = "cycle_error"
    /\ WasActive
    /\ last.pre.notification_sent
    /\ State = last.pre

----------------------------------------------------------------------------
(* C10 *)

\* C10 (as stated): after any single failed cycle of the live loop, a frame
\* read failure included, the loop is still running.
C10_FailureIsolated ==
    (last.mode = "live" /\ last.op \in {"cycle_error", "save_fail", "frame_fail"})
        => pc = "live"

----------------------------------------------------------------------------
(* C11 *)

\* C11 (as stated): in the notifying cycle, notified is set and the
\* notification record is appended without waiting for the send to return:
\* whenever the send is still in flight, notification_sent is already true
\* and the episode's notification row is already in the log.
C11_NotifyDoesNotWait ==
    in_flight # NoCall =>
        /\ notification_sent
        /\ CountEvent(EpisodeRows, "notification") = 1

----------------------------------------------------------------------------
(* C12 *)

\* the last step was a cycle whose notification delivery failed
DeliveryFailed == last.op = "detect" /\ last.notifier \in {"status", "raise"}

\* C12 (as stated): after a cycle whose notification delivery failed (the
\* transport raised or returned a non-success status) the Detection State
\* invariants hold and the sampling loop, in live mode and in loop mode, is
\* still running and goes on to the next cycle.
C12_DeliveryFailureIsolated ==
    DeliveryFailed =>
        /\ (orange_detection_start_time # NoneTime) <=> (current_state = "True")
        /\ notification_sent => current_state = "True"
        /\ pc \in {"live", "sleep"}

----------------------------------------------------------------------------
(* C13 *)

\* C13 (as stated): at no time do two of the monitoring process, the
\* dashboard's capture and coordinate-preview endpoints and the
\* coordinate-setting tool hold the capture device open at once.
C13_CameraExclusive == Cardinality(Holders) <= 1

----------------------------------------------------------------------------
(* C14 *)

\* the records appended so far, as a reader should return them
AppendedRecords == [i \in 1..Len(data_csv) |-> ReadRecord(data_csv[i])]

\* C14 (as stated, for records appended in normal mode): after any sequence
\* of appends, in any run mode and whether or not data.csv existed before,
\* load_all_detection_data returns exactly the appended records in append
\* order.
C14_RoundTrip ==
    (\A i \in 1..Len(data_csv) : data_csv[i].debug_mode = "normal")
        => load_all_detection_data = AppendedRecords

----------------------------------------------------------------------------
(* C15 *)

IsPrefix(a, b) == Len(a) <= Len(b) /\ SubSeq(b, 1, Len(a)) = a

\* C15: the Episode Log is append-only: in every step of the system, log
\* initialisation at a loop start included, the records in data.csv before
\* the step are a prefix of the records after it, and the file and its
\* header line are never removed.
C15_AppendOnly ==
    [][/\ IsPrefix(data_csv, data_csv')
       /\ csv_exists => csv_exists'
       /\ csv_header => csv_header']_vars

\* a loop was started on a log that held records, initialised it, and has
\* just appended a record behind them
C15_Witness ==
    /\ last.op = "detect"
    /\ last.mode \in {"live", "loop"}
    /\ Appended # <<>>
    /\ last.csv_len >= Len(EarlierRows)
    /\ IsPrefix(EarlierRows, data_csv)

----------------------------------------------------------------------------
(* C16 *)

\* the last step delivered an orange verdict to an episode already notified
AlreadyNotifiedCycle ==
    Judged("orange") /\ WasActive /\ last.pre.notification_sent

----------------------------------------------------------------------------
(* C17 *)

----------------------------------------------------------------------------
(* C18 *)

\* C18: comprehensive_judgment returns a region's colour only if that
\* region meets all three conditions, and when no region meets all three
\* the verdict is unknown with confidence 0.
C18_StrictPolicy ==
    Judged2 =>
        /\ verdict.judgment \in {"green", "orange", "unknown"}
        /\ verdict.judgment # "unknown" =>
              \E i \in Passing : results[i].expected_color = verdict.judgment
        /\ Passing = {} => (verdict.judgment = "unknown" /\ verdict.confidence = 0)

\* the orange region has the higher percentage but fails the brightness
\* condition, the green region passes all three: the verdict is green
C18_Witness ==
    /\ Judged2
    /\ results[2].percentage > results[1].percentage
    /\ results[2].percentage >= color_detection_threshold_percentage
    /\ results[2].brightness < brightness_threshold_high
    /\ Passing = {1}
    /\ verdict.judgment = "green"

----------------------------------------------------------------------------
(* C19 *)

\* C19: when exactly one region meets all three conditions the verdict is
\* its colour and the confidence is min(95, percentage + 15 + 10); the
\* confidence never exceeds 95 for any input.
C19_ConfidenceCapped ==
    /\ verdict.confidence <= 95
    /\ (Judged2 /\ Cardinality(Passing) = 1) =>
          LET i == CHOOSE k \in Passing : TRUE
          IN  /\ verdict.judgment = results[i].expected_color
              /\ verdict.confidence = Min(95, results[i].percentage + 15 + 10)

\* Scenario A: 80 % orange, brightness 150, 2000 pixels, 10 % green
C19_Witness ==
    /\ Judged2
    /\ results[2].percentage = 80
    /\ results[2].brightness = 150
    /\ results[2].expected_pixels = 2000
    /\ results[1].percentage = 10
    /\ verdict.judgment = "orange"
    /\ verdict.confidence = 95

----------------------------------------------------------------------------
(* C20 *)

\* C20: when both regions meet all three conditions the verdict is the
\* colour of the region with the higher score (no other region scores
\* higher than the verdict's).
C20_HigherScoreWins ==
    (Judged2 /\ Passing = {1, 2}) =>
        \E i \in Passing :
            /\ results[i].expected_color = verdict.judgment
            /\ \A k \in Passing :
                  results[k].percentage + 15 + 10 <= results[i].percentage + 15 + 10

\* both regions pass and the second one analysed, orange, scores higher
C20_Witness ==
    /\ Judged2
    /\ Passing = {1, 2}
    /\ results[2].percentage > results[1].percentage
    /\ verdict.judgment = "orange"

----------------------------------------------------------------------------
(* C21 *)

\* C21 (as stated): every result of comprehensive_judgment, for every input
\* list, the incomplete ones included, has a verdict in {orange, green,
\* unknown}, a confidence in 0..100 and a list of reasons, and all results
\* have one and the same shape.
C21_OneResultShape ==
    verdict # NoVerdict =>
        /\ verdict.judgment \in {"orange", "green", "unknown"}
        /\ verdict.confidence \in 0..100
        /\ verdict.reasons # <<>>
        /\ verdict.length = 4

----------------------------------------------------------------------------
(* C22 *)

----------------------------------------------------------------------------
(* Region extractor: crop_and_save_all_colors (main.py:559-605).  A frame  *)
(* is its width and height; a rectangle is four integers from the         *)
(* settings, which nothing keeps inside the frame or in order.            *)

Max(a, b) == IF a >= b THEN a ELSE b

\* rectangle 1 is the orange one, rectangle 2 the green one (main.py:553-556)
FrameSizes == {[width |-> 3, height |-> 2], [width |-> 2, height |-> 3]}

\* cv2.imread returned None
NoImage == [width |-> 0, height |-> 0]

CoordinateValues == -1 .. 4

Rectangles == [x1 : CoordinateValues, y1 : CoordinateValues,
               x2 : CoordinateValues, y2 : CoordinateValues]

\* inside the frame, inverted, reaching beyond the frame on every side
SomeRectangles ==
    {[x1 |-> 0, y1 |-> 0, x2 |-> 2, y2 |-> 2],
     [x1 |-> 2, y1 |-> 1, x2 |-> 1, y2 |-> 2],
     [x1 |-> -1, y1 |-> -1, x2 |-> 4, y2 |-> 4]}

\* max(0, v) alone
clamp_from_below(v, limit) == Max(0, v)

\* max(0, min(v, limit))
clamp(v, limit) == Max(0, Min(v, limit))

\* the indices a Python slice [lo:hi] selects from a sequence of length n:
\* a negative bound counts from the end, and bounds are cut to the sequence
SliceIndices(lo, hi, n) ==
    LET norm(i) == IF i < 0 THEN Max(0, i + n) ELSE Min(i, n)
    IN  {k \in 0 .. (n - 1) : norm(lo) <= k /\ k < norm(hi)}

\* one pass of the loop body for one rectangle; saved is what cv2.imwrite
\* returns when it is reached
crop_region(frame, coordinates, saved) ==
    LET x1 == clamp(coordinates.x1, frame.width)
        y1 == clamp(coordinates.y1, frame.height)
        x2 == clamp(coordinates.x2, frame.width)
        y2 == clamp(coordinates.y2, frame.height)
        rejected == x1 >= x2 \/ y1 >= y2
    IN  [x1 |-> x1, y1 |-> y1, x2 |-> x2, y2 |-> y2,
         accepted |-> ~rejected,
         columns |-> IF rejected THEN {} ELSE SliceIndices(x1, x2, frame.width),
         rows |-> IF rejected THEN {} ELSE SliceIndices(y1, y2, frame.height),
         saved |-> ~rejected /\ saved]

InitCrop ==
    /\ InitAside({"extractor"})
    /\ \E frame \in FrameSizes \cup {NoImage} :
       \E some \in SomeRectangles, any \in Rectangles :
       \E swap \in BOOLEAN :
          extractor = [frame |-> frame,
                       coordinates |-> IF swap THEN <<some, any>> ELSE <<any, some>>,
                       crop |-> <<>>]

\* everything but the concerns that have a specification of their own
main_vars == <<pc, debug_mode, now, detection_vars, last_detection_time, sleep_start,
               detection_logs, csv_vars, notifier_calls, bound_vars, last,
               orange_run_start, in_flight, camera_vars, settings, twin, judge_vars>>

ExtractorStep ==
    UNCHANGED <<main_vars, settings_api, startup, frame_feed, shutdown, dashboard, classifier, supervisor, config_file, frame_file>>

\* main.py:562-565
crop_unreadable ==
    /\ extractor.crop = <<>>
    /\ extractor.frame = NoImage
    /\ extractor' = [extractor EXCEPT !.crop = [regions |-> <<>>, success_count |-> 0,
                                                success |-> FALSE]]
    /\ ExtractorStep

\* main.py:567-605
crop_and_save_all_colors ==
    /\ extractor.crop = <<>>
    /\ extractor.frame # NoImage
    /\ \E saves \in [1 .. 2 -> BOOLEAN] :
          LET regions == [i \in 1 .. 2 |->
                             crop_region(extractor.frame, extractor.coordinates[i],
                                         saves[i])]
              success_count == Cardinality({i \in 1 .. 2 : regions[i].saved})
          IN  extractor' = [extractor EXCEPT
                               !.crop = [regions |-> regions,
                                         success_count |-> success_count,
                                         success |-> success_count = 2]]
    /\ ExtractorStep

NextCrop ==
    \/ crop_unreadable
    \/ crop_and_save_all_colors

SpecCrop == InitCrop /\ [][NextCrop]_vars

----------------------------------------------------------------------------
(* C23 *)

\* C23: for every frame size and every pair of rectangles, each region's
\* corners after clamping lie in 0..width and 0..height; the region is
\* rejected exactly when x1 >= x2 or y1 >= y2 after clamping; an accepted
\* region's slice is the columns x1..x2-1 and rows y1..y2-1 of the frame,
\* not empty and inside the frame; and the extraction succeeds only if both
\* regions were accepted.
C23_ClampedSlice ==
    (extractor.crop # <<>> /\ extractor.frame # NoImage) =>
        LET frame == extractor.frame
            crop == extractor.crop
        IN  /\ \A i \in 1 .. 2 :
                  LET r == crop.regions[i]
                  IN  /\ r.x1 \in 0 .. frame.width
                      /\ r.x2 \in 0 .. frame.width
                      /\ r.y1 \in 0 .. frame.height
                      /\ r.y2 \in 0 .. frame.height
                      /\ r.accepted <=> ~(r.x1 >= r.x2 \/ r.y1 >= r.y2)
                      /\ r.accepted =>
                            /\ r.columns = r.x1 .. (r.x2 - 1)
                            /\ r.rows = r.y1 .. (r.y2 - 1)
                            /\ r.columns \subseteq 0 .. (frame.width - 1)
                            /\ r.rows \subseteq 0 .. (frame.height - 1)
                            /\ Cardinality(r.columns) * Cardinality(r.rows) > 0
                      /\ ~r.accepted => ~r.saved
            /\ crop.success => \A i \in 1 .. 2 : crop.regions[i].accepted

\* a rectangle that starts left of and above the frame and ends beyond it was
\* cut to the frame and accepted, and the extraction succeeded
C23_Witness ==
    /\ extractor.crop # <<>>
    /\ extractor.crop.success
    /\ \E i \in 1 .. 2 :
          /\ extractor.coordinates[i].x1 < 0
          /\ extractor.coordinates[i].y1 < 0
          /\ extractor.coordinates[i].x2 > extractor.frame.width
          /\ extractor.coordinates[i].y2 > extractor.frame.height
          /\ extractor.crop.regions[i].x1 = 0
          /\ extractor.crop.regions[i].x2 = extractor.frame.width
          /\ extractor.crop.regions[i].accepted

----------------------------------------------------------------------------
(* Settings API: validate_settings and update_settings_api (app.py:67-98,  *)
(* 198-216).  A JSON object is a function from the keys it has to their    *)
(* values; the submitted values are numbers.                               *)

CoordinateKeys == {"x1", "y1", "x2", "y2"}

\* complete and in order; x1 = x2; x1 > x2; y1 = y2; y1 > y2; negative corner,
\* in order; a key missing; no key at all
SubmittedRectangles ==
    {[x1 |-> 1, y1 |-> 1, x2 |-> 2, y2 |-> 2],
     [x1 |-> 2, y1 |-> 1, x2 |-> 2, y2 |-> 2],
     [x1 |-> 3, y1 |-> 1, x2 |-> 2, y2 |-> 2],
     [x1 |-> 1, y1 |-> 2, x2 |-> 2, y2 |-> 2],
     [x1 |-> 1, y1 |-> 3, x2 |-> 2, y2 |-> 2],
     [x1 |-> -1, y1 |-> -1, x2 |-> 0, y2 |-> 0],
     [x1 |-> 1, y1 |-> 1, x2 |-> 2],
     [y1 |-> 1, x2 |-> 2, y2 |-> 2],
     <<>>}

\* app.py:80-85
numeric_checks ==
    <<[key_path |-> "detection.detection_interval_seconds", min_val |-> 1, max_val |-> 3600],
      [key_path |-> "detection.notification_threshold_minutes", min_val |-> 1, max_val |-> 120],
      [key_path |-> "detection.color_detection_threshold_percentage", min_val |-> 0, max_val |-> 100],
      [key_path |-> "camera.search_range", min_val |-> 1, max_val |-> 10]>>

\* the same checks with every lower limit one less
numeric_checks_from_one_below ==
    [i \in DOMAIN numeric_checks |->
        [numeric_checks[i] EXCEPT !.min_val = numeric_checks[i].min_val - 1]]

KeyPaths == {numeric_checks[i].key_path : i \in DOMAIN numeric_checks}

\* for each key path: the values at, next to and between its limits
SubmittedValues(i) ==
    {numeric_checks[i].min_val - 1, numeric_checks[i].min_val,
     numeric_checks[i].max_val, numeric_checks[i].max_val + 1}

\* the numeric part of a request: any subset of the key paths, each with one
\* of its values
SubmittedNumbers ==
    UNION {{f \in [present -> UNION {SubmittedValues(i) : i \in DOMAIN numeric_checks}] :
               \A i \in DOMAIN numeric_checks :
                  numeric_checks[i].key_path \in present =>
                     f[numeric_checks[i].key_path] \in SubmittedValues(i)}
           : present \in SUBSET KeyPaths}

validate_settings_with(checks, new_settings) ==
    LET coords(color) == new_settings.coordinates[color]
        incomplete(color) == ~(CoordinateKeys \subseteq DOMAIN coords(color))
        invalid(color) ==
            /\ ~incomplete(color)
            /\ (coords(color).x1 >= coords(color).x2 \/ coords(color).y1 >= coords(color).y2)
        missing(i) == checks[i].key_path \notin DOMAIN new_settings.numbers
        out_of_range(i) ==
            /\ ~missing(i)
            /\ ~(/\ checks[i].min_val <= new_settings.numbers[checks[i].key_path]
                 /\ new_settings.numbers[checks[i].key_path] <= checks[i].max_val)
    IN  {<<color, "incomplete">> : color \in {c \in {"orange", "green"} : incomplete(c)}}
        \cup {<<color, "invalid">> : color \in {c \in {"orange", "green"} : invalid(c)}}
        \cup {<<checks[i].key_path, "out of range">> :
                 i \in {j \in DOMAIN checks : out_of_range(j)}}
        \cup {<<checks[i].key_path, "not found">> :
                 i \in {j \in DOMAIN checks : missing(j)}}

validate_settings_lenient(new_settings) ==
    validate_settings_with(numeric_checks_from_one_below, new_settings)

\* app.py:67-98: the set of error messages
validate_settings(new_settings) ==
    validate_settings_with(numeric_checks, new_settings)

\* app.py:494-500: the settings the dashboard writes when none exist
StoredSettings ==
    [coordinates |-> [orange |-> [x1 |-> 1, y1 |-> 1, x2 |-> 3, y2 |-> 3],
                      green |-> [x1 |-> 1, y1 |-> 1, x2 |-> 3, y2 |-> 3]],
     numbers |-> [k \in KeyPaths |-> 5]]

InitSettingsApi ==
    /\ InitAside({"settings_api"})
    /\ \E orange \in SubmittedRectangles, green \in SubmittedRectangles :
       \E numbers \in SubmittedNumbers :
          settings_api =
             [stored |-> <<StoredSettings>>,
              submitted |-> <<[coordinates |-> [orange |-> orange, green |-> green],
                               numbers |-> numbers]>>,
              response |-> <<>>]

SettingsApiStep ==
    UNCHANGED <<main_vars, extractor, startup, frame_feed, shutdown, dashboard, classifier, supervisor, config_file, frame_file>>

\* app.py:205-207: refused with the list of errors
update_settings_api_refused ==
    /\ settings_api.response = <<>>
    /\ LET errors == validate_settings(settings_api.submitted[1])
       IN  /\ errors # {}
           /\ settings_api' = [settings_api EXCEPT
                                  !.response = <<[status |-> 400, errors |-> errors]>>]
    /\ SettingsApiStep

\* app.py:210-211: save_settings wrote setting.json
update_settings_api_saved ==
    /\ settings_api.response = <<>>
    /\ validate_settings(settings_api.submitted[1]) = {}
    /\ settings_api' = [settings_api EXCEPT
                           !.stored = settings_api.submitted,
                           !.response = <<[status |-> 200, errors |-> {}]>>]
    /\ SettingsApiStep

\* app.py:212-213 with app.py:59-65: open(..., 'w') failed and left the file
\* as it was, or json.dump failed after the file had been truncated
update_settings_api_save_failed ==
    /\ settings_api.response = <<>>
    /\ validate_settings(settings_api.submitted[1]) = {}
    /\ \E truncated \in BOOLEAN :
          settings_api' = [settings_api EXCEPT
                              !.stored = IF truncated THEN <<>> ELSE @,
                              !.response = <<[status |-> 500, errors |-> {}]>>]
    /\ SettingsApiStep

NextSettingsApi ==
    \/ update_settings_api_refused
    \/ update_settings_api_saved
    \/ update_settings_api_save_failed

SpecSettingsApi == InitSettingsApi /\ [][NextSettingsApi]_vars

----------------------------------------------------------------------------
(* C24 *)

InRange(numbers, key_path, lo, hi) ==
    /\ key_path \in DOMAIN numbers
    /\ numbers[key_path] \in lo .. hi

RectangleInOrder(rect) ==
    /\ DOMAIN rect = CoordinateKeys
    /\ rect.x1 < rect.x2
    /\ rect.y1 < rect.y2

Acceptable(new_settings) ==
    /\ RectangleInOrder(new_settings.coordinates.orange)
    /\ RectangleInOrder(new_settings.coordinates.green)
    /\ InRange(new_settings.numbers, "detection.detection_interval_seconds", 1, 3600)
    /\ InRange(new_settings.numbers, "detection.notification_threshold_minutes", 1, 120)
    /\ InRange(new_settings.numbers, "detection.color_detection_threshold_percentage", 0, 100)
    /\ InRange(new_settings.numbers, "camera.search_range", 1, 10)

\* C24: the request is answered without a validation error exactly when both
\* rectangles have all four keys with x1 < x2 and y1 < y2, the detection
\* interval is in 1..3600, the notification threshold in 1..120, the colour
\* percentage threshold in 0..100 and the camera search range in 1..10; the
\* submitted configuration is stored only in that case, and a request with a
\* validation error leaves setting.json as it was.
C24_ValidatedThenSaved ==
    settings_api.response # <<>> =>
        LET response == settings_api.response[1]
            submitted == settings_api.submitted[1]
        IN  /\ (response.errors = {} /\ response.status # 400) <=> Acceptable(submitted)
            /\ response.status = 200 =>
                  (Acceptable(submitted) /\ settings_api.stored = <<submitted>>)
            /\ ~Acceptable(submitted) =>
                  (response.status = 400 /\ settings_api.stored = <<StoredSettings>>)

\* a request whose only defect is a notification threshold of 121 minutes
\* was refused and setting.json still holds the earlier settings
C24_Witness ==
    /\ settings_api.response # <<>>
    /\ settings_api.response[1].status = 400
    /\ settings_api.response[1].errors =
          {<<"detection.notification_threshold_minutes", "out of range">>}
    /\ settings_api.submitted[1].numbers["detection.notification_threshold_minutes"] = 121
    /\ settings_api.stored = <<StoredSettings>>

----------------------------------------------------------------------------
(* Startup of the monitoring process: main, load_settings and get_setting  *)
(* (main.py:32-50, 67-82, 1764-1783; main_auto.py:32-40).                   *)

\* setting.json when the process starts: absent, not JSON, or a JSON object,
\* with or without an orange rectangle
SettingFiles ==
    LET green == [x1 |-> 1, y1 |-> 1, x2 |-> 2, y2 |-> 2]
    IN  {[state |-> "missing", content |-> <<>>],
         [state |-> "unparsable", content |-> <<>>]}
        \cup {[state |-> "parsed",
               content |-> <<[coordinates |-> coordinates, numbers |-> numbers]>>] :
                 coordinates \in {[green |-> green]}
                                 \cup {[orange |-> orange, green |-> green] :
                                          orange \in SubmittedRectangles},
                 numbers \in SubmittedNumbers}

\* main.py:67-82 for a numeric key
get_setting(loaded, key_path, default_value) ==
    IF key_path \in DOMAIN loaded.numbers THEN loaded.numbers[key_path] ELSE default_value

\* main.py:548-550 for the orange rectangle
get_color_coordinates(loaded) ==
    IF "orange" \in DOMAIN loaded.coordinates
    THEN loaded.coordinates.orange
    ELSE [x1 |-> 297, y1 |-> 86, x2 |-> 347, y2 |-> 133]

\* the values the loops read through get_setting (main.py:400, 1024-1025, 924)
SettingsInUse(loaded) ==
    [detection_interval |-> get_setting(loaded, "detection.detection_interval_seconds", 60),
     notification_threshold |->
         get_setting(loaded, "detection.notification_threshold_minutes", 10) * 60,
     threshold |-> get_setting(loaded, "detection.color_detection_threshold_percentage", 50),
     orange |-> get_color_coordinates(loaded)]

InitStartup ==
    /\ InitAside({"startup"})
    /\ \E file \in SettingFiles :
          startup = [file |-> file, at |-> "main", in_use |-> <<>>]

StartupStep ==
    UNCHANGED <<main_vars, extractor, settings_api, frame_feed, shutdown, dashboard, classifier, supervisor, config_file, frame_file>>

\* main.py:1767-1769: load_settings returned False
main_settings_unreadable ==
    /\ startup.at = "main"
    /\ startup.file.state \in {"missing", "unparsable"}
    /\ startup' = [startup EXCEPT !.at = "exited"]
    /\ StartupStep

\* main.py:1767, 1771: load_settings returned True
main_settings_loaded ==
    /\ startup.at = "main"
    /\ startup.file.state = "parsed"
    /\ startup' = [startup EXCEPT !.at = "select_mode"]
    /\ StartupStep

\* main.py:1772-1773: no mode chosen
main_no_mode ==
    /\ startup.at = "select_mode"
    /\ startup' = [startup EXCEPT !.at = "exited"]
    /\ StartupStep

\* main.py:1778-1788: a detection mode runs with what get_setting returns
main_run_mode ==
    /\ startup.at = "select_mode"
    /\ startup' = [startup EXCEPT !.at = "detecting",
                                  !.in_use = <<SettingsInUse(startup.file.content[1])>>]
    /\ StartupStep

NextStartup ==
    \/ main_settings_unreadable
    \/ main_settings_loaded
    \/ main_no_mode
    \/ main_run_mode

SpecStartup == InitStartup /\ [][NextStartup]_vars

----------------------------------------------------------------------------
(* C25 *)

\* C25: detection starts only with a configuration that passes validation:
\* the monitoring process never runs a detection mode when setting.json
\* lacks a safety-relevant setting or holds one outside its range.
C25_InvalidConfigurationIsFatal ==
    startup.at = "detecting" =>
        /\ startup.file.state = "parsed"
        /\ "orange" \in DOMAIN startup.file.content[1].coordinates
        /\ Acceptable(startup.file.content[1])

----------------------------------------------------------------------------
(* Frame snapshot endpoints: get_latest_image and video_feed (app.py:      *)
(* 314-347, 944-984) read streaming/current_frame.jpg, which               *)
(* save_frame_for_web (main.py:329-351) overwrites and nobody deletes.     *)
(* Time is in seconds; a file is the time it was last written.             *)

FreshnessWindow == 300
FrameTickSeconds == 100
MaxFrameTicks == 5

Endpoints == {"get_latest_image", "video_feed"}

is_stale_beyond_twice(current_time, file_time) ==
    current_time - file_time > 2 * FreshnessWindow

\* app.py:327, 962
is_stale(current_time, file_time) ==
    current_time - file_time > FreshnessWindow

InitFrameFeed ==
    /\ InitAside({"frame_feed"})
    /\ frame_feed \in [clock : {0}, file : {<<>>, <<0>>}, main_running : BOOLEAN,
                       request : {<<>>}, served : {<<>>}]

FrameFeedStep ==
    UNCHANGED <<main_vars, extractor, settings_api, startup, shutdown, dashboard, classifier, supervisor, config_file, frame_file>>

FrameTick ==
    /\ frame_feed.clock < MaxFrameTicks * FrameTickSeconds
    /\ frame_feed' = [frame_feed EXCEPT !.clock = @ + FrameTickSeconds]
    /\ FrameFeedStep

\* app.py:109-134, 136-160: the dashboard starts or stops main.py
MonitorStartStop ==
    /\ frame_feed' = [frame_feed EXCEPT !.main_running = ~@]
    /\ FrameFeedStep

\* main.py:338-339: the running monitor overwrites the frame file
save_frame_for_web ==
    /\ frame_feed.main_running
    /\ frame_feed' = [frame_feed EXCEPT !.file = <<frame_feed.clock>>]
    /\ FrameFeedStep

Served(endpoint, kind, frame_time) ==
    <<[endpoint |-> endpoint, kind |-> kind, frame_time |-> frame_time,
       at |-> frame_feed.clock,
       file |-> frame_feed.file,
       main_running |-> frame_feed.main_running]>>

\* a request arrives; app.py:948-950: video_feed answers with an empty
\* text/plain body when the monitor is not running
RequestArrives ==
    /\ frame_feed.request = <<>>
    /\ \E endpoint \in Endpoints :
          IF endpoint = "video_feed" /\ ~frame_feed.main_running
          THEN frame_feed' = [frame_feed EXCEPT
                                 !.served = Served(endpoint, "empty", 0)]
          ELSE frame_feed' = [frame_feed EXCEPT
                                 !.request = <<[endpoint |-> endpoint, at |-> "exists"]>>,
                                 !.served = <<>>]
    /\ FrameFeedStep

\* app.py:321-330, 336-340 (956-966, 973-978): os.path.exists, getmtime and
\* the comparison with time.time()
CheckFreshness ==
    /\ frame_feed.request # <<>>
    /\ frame_feed.request[1].at = "exists"
    /\ LET endpoint == frame_feed.request[1].endpoint
       IN  IF frame_feed.file = <<>>
           THEN frame_feed' = [frame_feed EXCEPT
                                  !.request = <<>>,
                                  !.served = Served(endpoint, "waiting", 0)]
           ELSE IF is_stale(frame_feed.clock, frame_feed.file[1])
           THEN frame_feed' = [frame_feed EXCEPT
                                  !.request = <<>>,
                                  !.served = Served(endpoint, "no connection", 0)]
           ELSE frame_feed' = [frame_feed EXCEPT
                                  !.request = <<[endpoint |-> endpoint, at |-> "open",
                                                 checked_at |-> frame_feed.clock,
                                                 checked_file |-> frame_feed.file]>>]
    /\ FrameFeedStep

\* app.py:333-336 (969-972): the file as it is now is read and returned
ReadFrame ==
    /\ frame_feed.request # <<>>
    /\ frame_feed.request[1].at = "open"
    /\ frame_feed' = [frame_feed EXCEPT
                         !.request = <<>>,
                         !.served =
                            <<[endpoint |-> frame_feed.request[1].endpoint,
                               kind |-> "frame",
                               frame_time |-> frame_feed.file[1],
                               at |-> frame_feed.request[1].checked_at,
                               file |-> frame_feed.request[1].checked_file,
                               main_running |-> frame_feed.main_running]>>]
    /\ FrameFeedStep

\* app.py:342-346 (980-984): open or read raised
ReadFrameError ==
    /\ frame_feed.request # <<>>
    /\ frame_feed.request[1].at = "open"
    /\ frame_feed' = [frame_feed EXCEPT
                         !.request = <<>>,
                         !.served =
                            <<[endpoint |-> frame_feed.request[1].endpoint,
                               kind |-> "error",
                               frame_time |-> 0,
                               at |-> frame_feed.request[1].checked_at,
                               file |-> frame_feed.request[1].checked_file,
                               main_running |-> frame_feed.main_running]>>]
    /\ FrameFeedStep

NextFrameFeed ==
    \/ FrameTick
    \/ MonitorStartStop
    \/ save_frame_for_web
    \/ RequestArrives
    \/ CheckFreshness
    \/ ReadFrame
    \/ ReadFrameError

SpecFrameFeed == InitFrameFeed /\ [][NextFrameFeed]_vars

----------------------------------------------------------------------------
(* C26 *)

\* the answer, with the file and the clock as they were when the endpoint
\* decided
Answer == frame_feed.served[1]

AnsweredMissing == Answer.file = <<>>

AnsweredStale == Answer.file # <<>> /\ Answer.at - Answer.file[1] > 300

\* a stored frame older than 300 s at the freshness check is never served
NeverServesStale ==
    Answer.kind = "frame" =>
        /\ Answer.file # <<>>
        /\ Answer.at - Answer.file[1] <= 300
        /\ Answer.frame_time >= Answer.file[1]

\* C26 as stated: both endpoints never serve a frame older than 300 s, answer
\* a stale frame with the 'no connection' placeholder and a missing frame
\* with the 'waiting' placeholder.
C26_StaleOrMissingPlaceholder ==
    frame_feed.served # <<>> =>
        /\ NeverServesStale
        /\ AnsweredStale => Answer.kind = "no connection"
        /\ AnsweredMissing => Answer.kind = "waiting"

\* C26 (amended): both endpoints never serve a frame older than 300 s;
\* get_latest_image always, and video_feed while the monitoring process is
\* running, answer a stale frame with the 'no connection' placeholder and a
\* missing frame with the 'waiting' placeholder; video_feed answers with an
\* empty body, whatever the frame file, while the monitoring process is not
\* running.
C26_PlaceholderUnlessStopped ==
    frame_feed.served # <<>> =>
        /\ NeverServesStale
        /\ IF Answer.endpoint = "video_feed" /\ Answer.kind = "empty"
           THEN ~Answer.main_running
           ELSE /\ Answer.kind # "empty"
                /\ AnsweredStale => Answer.kind = "no connection"
                /\ AnsweredMissing => Answer.kind = "waiting"

\* the monitor wrote a frame, more than 300 s passed, and video_feed, with
\* the monitor running, answered with the 'no connection' placeholder
C26_Witness ==
    /\ frame_feed.served # <<>>
    /\ Answer.endpoint = "video_feed"
    /\ Answer.kind = "no connection"
    /\ Answer.file # <<>>
    /\ Answer.file[1] > 0
    /\ Answer.at - Answer.file[1] > 300

----------------------------------------------------------------------------
(* Stopping the live loop (main.py:377-546) as an operating-system process *)
(* started and stopped by the dashboard (app.py:109-160).  main.py and     *)
(* main_auto.py install no signal handler: terminate() ends the process at *)
(* whatever statement it is executing, and only KeyboardInterrupt and the  *)
(* quit key reach the finally block.                                       *)

MaxShutdownCycles == 3

\* the statements of one pass, in order: cap.read, analysis and
\* update_detection_state, log_to_csv's writerow inside `with open`, the end
\* of the with block, imshow and waitKey
LivePositions == <<"read", "judge", "writerow", "close", "waitKey">>

PositionAfter(at) ==
    LET i == CHOOSE j \in DOMAIN LivePositions : LivePositions[j] = at
    IN  LivePositions[(i % Len(LivePositions)) + 1]

InitShutdown ==
    /\ InitAside({"shutdown"})
    /\ shutdown = [at |-> "read", cap |-> "open", rows |-> <<>>, buffered |-> <<>>,
                   cycles |-> 0, ended_by |-> "none"]

ShutdownStep ==
    UNCHANGED <<main_vars, extractor, settings_api, startup, frame_feed, dashboard, classifier, supervisor, config_file, frame_file>>

Running == shutdown.at \in {LivePositions[i] : i \in DOMAIN LivePositions}

\* main.py:427-531: the next statement of the pass; writerow leaves the record
\* in the file object's buffer and the end of the with block writes it out
LiveStatement ==
    /\ Running
    /\ shutdown.at = "waitKey" => shutdown.cycles < MaxShutdownCycles
    /\ \E judgment \in {"orange", "green"} :
          shutdown' = [shutdown EXCEPT
              !.at = PositionAfter(shutdown.at),
              !.buffered = IF shutdown.at = "writerow" THEN <<judgment>>
                           ELSE IF shutdown.at = "close" THEN <<>> ELSE @,
              !.rows = IF shutdown.at = "close" THEN @ \o shutdown.buffered ELSE @,
              !.cycles = IF shutdown.at = "waitKey" THEN @ + 1 ELSE @]
    /\ ShutdownStep

\* main.py:529-531, 541-546: ESC or q at waitKey, then the finally block
QuitKey ==
    /\ shutdown.at = "waitKey"
    /\ shutdown' = [shutdown EXCEPT !.at = "ended", !.cap = "released",
                                    !.ended_by = "quit key"]
    /\ ShutdownStep

\* main.py:535-536, 541-546: Ctrl-C raises KeyboardInterrupt at the current
\* statement; a with block that is open closes its file on the way out
KeyboardInterrupt ==
    /\ Running
    /\ shutdown' = [shutdown EXCEPT !.at = "ended", !.cap = "released",
                                    !.rows = @ \o shutdown.buffered,
                                    !.buffered = <<>>,
                                    !.ended_by = "KeyboardInterrupt"]
    /\ ShutdownStep

\* app.py:145-146 (and restart_main_process, app.py:166-168):
\* main_process.terminate(); the process ends where it is, cap.release() is
\* not executed and a buffered record is not written
terminate ==
    /\ Running
    /\ shutdown' = [shutdown EXCEPT !.at = "ended", !.ended_by = "terminate"]
    /\ ShutdownStep

NextShutdown ==
    \/ LiveStatement
    \/ QuitKey
    \/ KeyboardInterrupt
    \/ terminate

SpecShutdown == InitShutdown /\ [][NextShutdown]_vars

----------------------------------------------------------------------------
(* C27 *)

\* C27: whenever the monitoring process has ended on a stop request, its
\* loop has released the camera handle and every record handed to the log
\* has been written to data.csv.
C27_CleanShutdown ==
    shutdown.at = "ended" =>
        /\ shutdown.cap = "released"
        /\ shutdown.buffered = <<>>

----------------------------------------------------------------------------
(* The dashboard (app.py) beside the monitoring process it starts in live  *)
(* mode (app.py:120-128 with main_auto.py:74-76).  Every request served    *)
(* changes the variable dashboard; the steps of the monitor leave it       *)
(* alone.                                                                  *)

MaxRequests == 2

\* the monitoring process at its menu, no request served yet
InitDashboard == Init

DashboardStep ==
    UNCHANGED <<extractor, settings_api, startup, shutdown, classifier, supervisor,
                config_file, frame_file>>

\* what a request leaves alone when it only reads
MonitorUntouched ==
    UNCHANGED <<pc, debug_mode, now, detection_vars, last_detection_time, sleep_start,
                detection_logs, csv_vars, notifier_calls, bound_vars, last,
                orange_run_start, in_flight, camera_vars, settings, twin, judge_vars,
                frame_feed>>

Request(op, view) ==
    /\ dashboard.requests < MaxRequests
    /\ dashboard' = [op |-> op, view |-> view, requests |-> dashboard.requests + 1]
    /\ DashboardStep

\* csv.DictReader takes the first line of the file for the header
DictReaderRows == IF csv_header \/ data_csv = <<>> THEN data_csv ELSE Tail(data_csv)

\* logs[-5:]
LastFive(logs) == SubSeq(logs, Max(1, Len(logs) - 4), Len(logs))

\* the request made with a mode that empties the file
load_detection_logs_truncating ==
    /\ csv_exists
    /\ Request("load_detection_logs", <<>>)
    /\ data_csv' = <<>>
    /\ UNCHANGED <<pc, debug_mode, now, detection_vars, last_detection_time, sleep_start,
                   detection_logs, csv_exists, csv_header, notifier_calls, bound_vars,
                   last, orange_run_start, in_flight, camera_vars, settings, twin,
                   judge_vars, frame_feed>>

\* app.py:783-800: the last five records of data.csv, which open(..., 'r')
\* leaves as it is
load_detection_logs ==
    /\ csv_exists
    /\ Request("load_detection_logs", LastFive(DictReaderRows))
    /\ MonitorUntouched

\* app.py:314-347: the frame file is read
get_latest_image ==
    /\ Request("get_latest_image", frame_feed.file)
    /\ MonitorUntouched

\* app.py:349-400: a frame is written to sample_img/manual_capture_*.png
capture_image ==
    /\ Request("capture_image", <<>>)
    /\ MonitorUntouched

\* app.py:136-160 with is_main_running: the monitoring process is ended
dashboard_stop_main_process ==
    /\ pc = "live"
    /\ Request("stop_main_process", <<>>)
    /\ pc' = "exited"
    /\ UNCHANGED <<debug_mode, now, detection_vars, last_detection_time, sleep_start,
                   detection_logs, csv_vars, notifier_calls, bound_vars, last,
                   orange_run_start, in_flight, camera_vars, settings, twin, judge_vars,
                   frame_feed>>

\* a new process: module load, main.py:20-23
NewProcess ==
    /\ pc' = "menu"
    /\ ResetDetectionState
    /\ last_detection_time' = 0
    /\ detection_logs' = <<>>
    /\ orange_run_start' = NoneTime
    /\ UNCHANGED <<debug_mode, now, sleep_start, csv_vars, notifier_calls, bound_vars,
                   last, in_flight, camera_vars, settings, twin, judge_vars, frame_feed>>

\* app.py:109-134
dashboard_start_main_process ==
    /\ pc = "exited"
    /\ Request("start_main_process", <<>>)
    /\ NewProcess

\* app.py:162-172: stop_main_process, then start_main_process
restart_main_process ==
    /\ pc = "live"
    /\ Request("restart_main_process", <<>>)
    /\ NewProcess

\* main.py:500-505: every fifth displayed frame is written to
\* streaming/current_frame.jpg
PublishFrame ==
    /\ pc = "live"
    /\ frame_feed.file # <<now>>
    /\ frame_feed' = [frame_feed EXCEPT !.file = <<now>>]
    /\ UNCHANGED <<main_vars, extractor, settings_api, startup, shutdown, dashboard,
                   classifier, supervisor, config_file, frame_file>>

NextDashboard ==
    \/ StartLive
    \/ \E j \in Verdicts, n \in NotifierOutcomes \cup {"none"} : LiveDetect(j, n)
    \/ LiveQuit
    \/ Tick
    \/ PublishFrame
    \/ load_detection_logs
    \/ get_latest_image
    \/ capture_image
    \/ dashboard_stop_main_process
    \/ dashboard_start_main_process
    \/ restart_main_process

SpecDashboard == InitDashboard /\ [][NextDashboard]_vars

----------------------------------------------------------------------------
(* C28 *)

Served28 == dashboard' # dashboard

\* C28 as stated: no request served by the dashboard writes, truncates or
\* deletes data.csv or the published frame, or changes the Detection State
\* of the running monitoring process.
C28_DashboardOnlyReads ==
    [][Served28 =>
          /\ UNCHANGED <<csv_vars, frame_feed>>
          /\ pc = "live" => UNCHANGED detection_vars]_vars

\* C28 (amended): no request served by the dashboard writes, truncates or
\* deletes data.csv or the published frame; the Detection State of the
\* running monitoring process is changed by restart_main_process alone,
\* which ends the process and so replaces its state by the idle state of a
\* new process.
C28_OnlyRestartDiscardsState ==
    [][Served28 =>
          /\ UNCHANGED <<csv_vars, frame_feed>>
          /\ (pc = "live" /\ dashboard'.op # "restart_main_process") =>
                UNCHANGED detection_vars
          /\ dashboard'.op = "restart_main_process" =>
                /\ current_state' = "None"
                /\ orange_detection_start_time' = NoneTime
                /\ notification_sent' = FALSE]_vars

\* the dashboard has read the log's records while an episode was active and
\* a frame was published, and all three are as the monitor left them
C28_Witness ==
    /\ dashboard.op = "load_detection_logs"
    /\ dashboard.view = data_csv
    /\ Len(data_csv) >= 2
    /\ current_state = "True"
    /\ frame_feed.file # <<>>
    /\ last.op = "detect"

----------------------------------------------------------------------------
(* Colour classifier: analyze_lamp_color with                              *)
(* preprocess_image_for_color_detection (main.py:688-730) and the range    *)
(* presets (main.py:622-670).  A sub-image of one colour is its BGR pixel  *)
(* and its number of pixels: a 3x3 Gaussian blur of such an image is the   *)
(* image itself.  8-bit OpenCV HSV: H in 0..179 (degrees / 2), S and V in  *)
(* 0..255, each rounded to the nearest integer.                            *)

\* a / b rounded to the nearest integer, for a >= 0 and b > 0
RoundDiv(a, b) == (2 * a + b) \div (2 * b)

Max3(a, b, c) == Max(a, Max(b, c))

Min3(a, b, c) == Min(a, Min(b, c))

\* cv2.cvtColor(image, cv2.COLOR_BGR2HSV) for one pixel
BGR2HSV(bgr) ==
    LET b == bgr[1]
        g == bgr[2]
        r == bgr[3]
        v == Max3(b, g, r)
        d == v - Min3(b, g, r)
        s == IF v = 0 THEN 0 ELSE RoundDiv(255 * d, v)
        \* the hue in units of 1/d degrees, before it is brought into 0..360
        raw == IF d = 0 THEN 0
               ELSE IF v = r THEN 60 * (g - b)
               ELSE IF v = g THEN 120 * d + 60 * (b - r)
               ELSE 240 * d + 60 * (r - g)
        deg == IF raw < 0 THEN raw + 360 * d ELSE raw
        h == IF d = 0 THEN 0 ELSE RoundDiv(deg, 2 * d) % 180
    IN  <<h, s, v>>

\* cv2.cvtColor(hsv, cv2.COLOR_HSV2BGR) for one pixel
HSV2BGR(hsv) ==
    LET deg == 2 * hsv[1]
        s == hsv[2]
        v == hsv[3]
        sector == deg \div 60
        f == deg % 60
        p == RoundDiv(v * (255 - s), 255)
        q == RoundDiv(v * (255 * 60 - s * f), 255 * 60)
        t == RoundDiv(v * (255 * 60 - s * (60 - f)), 255 * 60)
        rgb == CASE sector = 0 -> <<v, t, p>>
                 [] sector = 1 -> <<q, v, p>>
                 [] sector = 2 -> <<p, v, t>>
                 [] sector = 3 -> <<p, q, v>>
                 [] sector = 4 -> <<t, p, v>>
                 [] OTHER -> <<v, p, q>>
    IN  <<rgb[3], rgb[2], rgb[1]>>

\* cv2.multiply(hsv[:, :, 1], 1.2): rounded and saturated at 255
multiply_saturation(s) == Min(255, RoundDiv(12 * s, 10))

\* main.py:717-730, for one pixel of a one-colour image
preprocess_image_for_color_detection(bgr) ==
    LET hsv == BGR2HSV(bgr)
    IN  HSV2BGR(<<hsv[1], multiply_saturation(hsv[2]), hsv[3]>>)

\* main.py:622-657: lower and upper HSV bounds per colour class
get_default_color_ranges ==
    [orange |-> [lower |-> <<11, 50, 50>>, upper |-> <<25, 255, 255>>],
     green |-> [lower |-> <<40, 50, 50>>, upper |-> <<80, 255, 255>>]]

get_enhanced_color_ranges ==
    [orange |-> [lower |-> <<8, 30, 30>>, upper |-> <<30, 255, 255>>],
     green |-> [lower |-> <<35, 30, 30>>, upper |-> <<85, 255, 255>>]]

get_strict_color_ranges ==
    [orange |-> [lower |-> <<12, 80, 80>>, upper |-> <<25, 255, 255>>],
     green |-> [lower |-> <<45, 80, 80>>, upper |-> <<75, 255, 255>>]]

\* main.py:659-669
get_adaptive_color_ranges(color_mode) ==
    IF color_mode = "strict" THEN get_strict_color_ranges
    ELSE IF color_mode = "enhanced" THEN get_enhanced_color_ranges
    ELSE get_default_color_ranges

\* only the upper bound is compared
inRange_upper_only(hsv, lower, upper) ==
    \A i \in 1 .. 3 : hsv[i] <= upper[i]

\* cv2.inRange for one pixel
inRange(hsv, lower, upper) ==
    \A i \in 1 .. 3 : lower[i] <= hsv[i] /\ hsv[i] <= upper[i]

\* main.py:688-715: the number of pixels in each class's range
analyze_lamp_color(image, color_ranges, apply_preprocessing) ==
    LET bgr == IF apply_preprocessing
               THEN preprocess_image_for_color_detection(image.pixel)
               ELSE image.pixel
        hsv == BGR2HSV(bgr)
    IN  [color_name \in {"orange", "green"} |->
            IF inRange(hsv, color_ranges[color_name].lower, color_ranges[color_name].upper)
            THEN image.pixels
            ELSE 0]

ChannelValues == {0, 64, 128, 200, 255}

\* one-colour sub-images of 1 and of 2350 pixels (47 x 50, the default
\* orange rectangle)
OneColourImages ==
    [pixel : ChannelValues \X ChannelValues \X ChannelValues, pixels : {1, 2350}]

Black == <<0, 0, 0>>

White == <<255, 255, 255>>

InitClassifier ==
    /\ InitAside({"classifier"})
    /\ classifier \in [image : {<<i>> : i \in OneColourImages},
                       color_mode : {"strict", "enhanced", "default"},
                       apply_preprocessing : BOOLEAN,
                       color_pixels : {<<>>}]

ClassifierStep ==
    UNCHANGED <<main_vars, extractor, settings_api, startup, frame_feed, shutdown,
                dashboard, supervisor, config_file, frame_file>>

Analyze ==
    /\ classifier.color_pixels = <<>>
    /\ classifier' =
          [classifier EXCEPT
              !.color_pixels =
                 <<analyze_lamp_color(classifier.image[1],
                                      get_adaptive_color_ranges(classifier.color_mode),
                                      classifier.apply_preprocessing)>>]
    /\ ClassifierStep

NextClassifier == Analyze

SpecClassifier == InitClassifier /\ [][NextClassifier]_vars

----------------------------------------------------------------------------
(* C29 *)

\* C29: for an all-black and for an all-white sub-image, analysed with the
\* preprocessing applied, the pixel count of the orange class and of the
\* green class is 0 under the strict, the enhanced and the default ranges.
C29_BlackAndWhiteCountZero ==
    (/\ classifier.color_pixels # <<>>
     /\ classifier.apply_preprocessing
     /\ classifier.image[1].pixel \in {Black, White}) =>
        /\ classifier.color_pixels[1].orange = 0
        /\ classifier.color_pixels[1].green = 0

\* an all-white sub-image of 2350 pixels went through the preprocessing and
\* the enhanced ranges, the widest of the three, and no pixel was counted
C29_Witness ==
    /\ classifier.color_pixels # <<>>
    /\ classifier.apply_preprocessing
    /\ classifier.color_mode = "enhanced"
    /\ classifier.image[1] = [pixel |-> White, pixels |-> 2350]
    /\ classifier.color_pixels[1] = [orange |-> 0, green |-> 0]

\* the classifier does count: an orange sub-image has all its pixels in the
\* orange class and none in the green class
OrangeIsCounted ==
    (/\ classifier.color_pixels # <<>>
     /\ classifier.image[1].pixel = <<0, 128, 255>>) =>
        classifier.color_pixels[1] = [orange |-> classifier.image[1].pixels, green |-> 0]

----------------------------------------------------------------------------
(* C30 *)

\* the last step appended exactly one record, of this event type and
\* verdict, with duration 0
LoggedOnce(event_type, judgment) ==
    /\ Len(Appended) = 1
    /\ Appended[1].event_type = event_type
    /\ Appended[1].detection_result = judgment
    /\ Appended[1].duration_seconds = 0

----------------------------------------------------------------------------
(* C31 *)

\* C31: a step that finds the episode active and leaves it active leaves
\* orange_detection_start_time as it was, whether the step is an orange
\* verdict, a failed cycle or a wait; in an active episode the start is the
\* time of the first orange verdict of the unbroken run; and every
\* orange_continue record carries the time elapsed since that start.
C31_EpisodeStartFrozen ==
    /\ (WasActive /\ current_state = "True") =>
          orange_detection_start_time = last.pre.orange_detection_start_time
    /\ current_state = "True" =>
          /\ orange_detection_start_time # NoneTime
          /\ orange_detection_start_time = orange_run_start
    /\ \A i \in 1..Len(Appended) :
          Appended[i].event_type = "orange_continue" =>
             /\ WasActive
             /\ NearestTenth(Appended[i].duration_seconds,
                             last.at - orange_run_start)

\* an episode with an orange_continue record carrying time since its start,
\* then a failed cycle, then an orange verdict: the start is the one recorded
\* before the failed cycle and the elapsed time is counted from it
C31_Witness ==
    /\ Judged("orange")
    /\ WasActive
    /\ CountEvent(data_csv, "orange_start") = 1
    /\ \E i \in 1..Len(data_csv) :
          /\ data_csv[i].event_type = "orange_continue"
          /\ data_csv[i].duration_seconds > 0
    /\ Len(detection_logs) >= 4
    /\ detection_logs[Len(detection_logs) - 2] = "ERROR"
    /\ orange_detection_start_time = last.pre.orange_detection_start_time
    /\ Len(Appended) = 1
    /\ Appended[1].duration_seconds > 0
    /\ NearestTenth(Appended[1].duration_seconds, last.at - orange_run_start)

----------------------------------------------------------------------------
(* C32 *)

\* C32: a loop-mode cycle in which only one region image could be analysed
\* leaves the Detection State as it was and the loop goes on: it is waiting
\* for its next cycle.
C32_OneResultCycleIsolated ==
    (last.mode = "loop" /\ last.op = "cycle_raise") =>
        /\ State = last.pre
        /\ pc = "sleep"

----------------------------------------------------------------------------
(* Process control in the dashboard (app.py:104-172), served by Flask with *)
(* threaded=True (app.py:1571): each request runs in a thread of its own   *)
(* and the global main_process is read and written without a lock.  A     *)
(* process is a number 1, 2, ...; main_process = 0 stands for None.        *)

MaxStarted == 3

Threads == {"t1", "t2"}

\* app.py:104-107
is_main_running ==
    supervisor.main_process # 0 /\ supervisor.main_process \in supervisor.alive

InitSupervisor ==
    /\ InitAside({"supervisor"})
    /\ supervisor = [main_process |-> 0, alive |-> {}, started |-> 0,
                     thread |-> [t \in Threads |-> [op |-> "none", at |-> "idle"]]]

SupervisorStep ==
    UNCHANGED <<main_vars, extractor, settings_api, startup, frame_feed, shutdown,
                dashboard, classifier, config_file, frame_file>>

At(t, op, at) == [supervisor EXCEPT !.thread[t] = [op |-> op, at |-> at]]

\* a POST to /api/main/start, /api/main/stop or /api/main/restart arrives
RequestProcessControl(t) ==
    /\ supervisor.thread[t].at = "idle"
    /\ \E op \in {"start", "stop", "restart"} :
          supervisor' = At(t, op, IF op = "start" THEN "start check" ELSE "stop check")
    /\ SupervisorStep

\* app.py:113-115: if is_main_running(): return False
StartCheck(t) ==
    /\ supervisor.thread[t].at = "start check"
    /\ supervisor' = At(t, supervisor.thread[t].op,
                        IF is_main_running THEN "idle" ELSE "Popen")
    /\ SupervisorStep

\* app.py:123-131: main_process = subprocess.Popen(...)
StartPopen(t) ==
    /\ supervisor.thread[t].at = "Popen"
    /\ supervisor.started < MaxStarted
    /\ LET pid == supervisor.started + 1
       IN  supervisor' = [supervisor EXCEPT
                             !.started = pid,
                             !.alive = @ \cup {pid},
                             !.main_process = pid,
                             !.thread[t] = [op |-> supervisor.thread[t].op, at |-> "idle"]]
    /\ SupervisorStep

\* app.py:140-142 and 166: if not is_main_running(): nothing to stop
StopCheck(t) ==
    /\ supervisor.thread[t].at = "stop check"
    /\ supervisor' =
          At(t, supervisor.thread[t].op,
             IF is_main_running THEN "terminate"
             ELSE IF supervisor.thread[t].op = "restart" THEN "start check"
             ELSE "idle")
    /\ SupervisorStep

\* app.py:146-147: main_process.terminate(); main_process.wait(); when another
\* thread has set main_process to None in between, the call raises and the
\* function returns False (app.py:158-160)
StopTerminate(t) ==
    /\ supervisor.thread[t].at = "terminate"
    /\ IF supervisor.main_process = 0
       THEN supervisor' =
               At(t, supervisor.thread[t].op,
                  IF supervisor.thread[t].op = "restart" THEN "start check" ELSE "idle")
       ELSE supervisor' =
               [supervisor EXCEPT
                   !.alive = @ \ {supervisor.main_process},
                   !.thread[t] = [op |-> supervisor.thread[t].op, at |-> "clear"]]
    /\ SupervisorStep

\* app.py:149: main_process = None; restart_main_process goes on to
\* start_main_process (app.py:169-172)
StopClear(t) ==
    /\ supervisor.thread[t].at = "clear"
    /\ supervisor' =
          [supervisor EXCEPT
              !.main_process = 0,
              !.thread[t] = [op |-> supervisor.thread[t].op,
                             at |-> IF supervisor.thread[t].op = "restart"
                                    THEN "start check" ELSE "idle"]]
    /\ SupervisorStep

\* a monitoring process ends by itself (quit key, frame read failure)
MonitorExits ==
    /\ \E pid \in supervisor.alive :
          supervisor' = [supervisor EXCEPT !.alive = @ \ {pid}]
    /\ SupervisorStep

NextSupervisor ==
    \/ \E t \in Threads : RequestProcessControl(t)
    \/ \E t \in Threads : StartCheck(t)
    \/ \E t \in Threads : StartPopen(t)
    \/ \E t \in Threads : StopCheck(t)
    \/ \E t \in Threads : StopTerminate(t)
    \/ \E t \in Threads : StopClear(t)
    \/ MonitorExits

SpecSupervisor == InitSupervisor /\ [][NextSupervisor]_vars

----------------------------------------------------------------------------
(* C33 *)

\* C33: at most one monitoring process started by the dashboard is alive,
\* whatever the interleaving of the threads serving start, stop and restart
\* requests.
C33_SingleMonitor == Cardinality(supervisor.alive) <= 1

----------------------------------------------------------------------------
(* The writers of the coordinates in setting.json: POST /api/settings      *)
(* (app.py:198-216), POST /api/coordinates (app.py:463-517) and the        *)
(* coordinate tool (coordinate_setter.py:25-52, 72-116, 250-264).          *)

Pixels == 1 .. 2

\* the rectangles a request carries: in order, x1 = x2, x1 > x2, y1 > y2, a
\* key missing
PostedRectangles ==
    {rect \in SubmittedRectangles :
        /\ "x1" \in DOMAIN rect
        /\ rect.x1 >= 1
        /\ ("y2" \in DOMAIN rect => rect.y1 # rect.y2)}

InitConfigFile ==
    /\ InitAside({"config_file"})
    /\ config_file = [stored |-> <<StoredSettings.coordinates>>, tool |-> <<>>,
                      by |-> "none"]

ConfigFileStep ==
    UNCHANGED <<main_vars, extractor, settings_api, startup, frame_feed, shutdown,
                dashboard, classifier, supervisor, frame_file>>

\* app.py:198-216 with the numeric settings in range: stored only when
\* validate_settings finds no error
SettingsPost ==
    /\ \E orange \in PostedRectangles, green \in PostedRectangles :
          LET new_settings == [coordinates |-> [orange |-> orange, green |-> green],
                               numbers |-> StoredSettings.numbers]
          IN  IF validate_settings(new_settings) = {}
              THEN config_file' = [config_file EXCEPT
                                      !.stored = <<new_settings.coordinates>>,
                                      !.by = "settings"]
              ELSE config_file' = [config_file EXCEPT !.by = "settings refused"]
    /\ ConfigFileStep

\* app.py:463-517: both colours present with the four keys, each a number;
\* then settings['coordinates'] = coordinates and save_settings
save_coordinates_api ==
    /\ \E orange \in PostedRectangles, green \in PostedRectangles :
          IF CoordinateKeys \subseteq DOMAIN orange /\ CoordinateKeys \subseteq DOMAIN green
          THEN config_file' = [config_file EXCEPT
                                  !.stored = <<[orange |-> orange, green |-> green]>>,
                                  !.by = "coordinates"]
          ELSE config_file' = [config_file EXCEPT !.by = "coordinates refused"]
    /\ ConfigFileStep

\* coordinate_setter.py:72-87, 216: the tool starts from the stored rectangles
load_current_settings ==
    /\ config_file.tool = <<>>
    /\ config_file' = [config_file EXCEPT !.tool = config_file.stored, !.by = "none"]
    /\ ConfigFileStep

\* coordinate_setter.py:25-52: button down at start_point, button up at
\* end_point; the corners are the minima and the maxima
mouse_callback ==
    /\ config_file.tool # <<>>
    /\ \E current_color \in {"orange", "green"} :
       \E sx \in Pixels, sy \in Pixels, ex \in Pixels, ey \in Pixels :
          config_file' =
             [config_file EXCEPT
                 !.tool[1][current_color] =
                     [x1 |-> Min(sx, ex), y1 |-> Min(sy, ey),
                      x2 |-> Max(sx, ex), y2 |-> Max(sy, ey)],
                 !.by = "none"]
    /\ ConfigFileStep

\* coordinate_setter.py:89-116, 260-268: the S key writes the tool's
\* rectangles and ends the tool
save_coordinates_to_settings ==
    /\ config_file.tool # <<>>
    /\ config_file' = [stored |-> config_file.tool, tool |-> <<>>, by |-> "tool"]
    /\ ConfigFileStep

\* coordinate_setter.py:246-248: ESC ends the tool without writing
ToolEscape ==
    /\ config_file.tool # <<>>
    /\ config_file' = [config_file EXCEPT !.tool = <<>>, !.by = "none"]
    /\ ConfigFileStep

NextConfigFile ==
    \/ SettingsPost
    \/ save_coordinates_api
    \/ load_current_settings
    \/ mouse_callback
    \/ save_coordinates_to_settings
    \/ ToolEscape

SpecConfigFile == InitConfigFile /\ [][NextConfigFile]_vars

----------------------------------------------------------------------------
(* C34 *)

\* C34: the configuration file always holds an orange and a green rectangle
\* with x1 < x2 and y1 < y2, after any sequence of settings POSTs, coordinate
\* POSTs and coordinate-tool saves.
C34_StoredRectanglesInOrder ==
    /\ RectangleInOrder(config_file.stored[1].orange)
    /\ RectangleInOrder(config_file.stored[1].green)

----------------------------------------------------------------------------
(* C35 *)

\* reading the first n event types in order: "open" inside an episode,
\* "closed" outside, "broken" once a record is out of place
RECURSIVE Bracketing(_, _)
Bracketing(events, n) ==
    IF n = 0 THEN "closed"
    ELSE LET before == Bracketing(events, n - 1)
             e == events[n]
         IN  IF before = "broken" THEN "broken"
             ELSE IF e = "orange_start"
                  THEN (IF before = "closed" THEN "open" ELSE "broken")
             ELSE IF e \in {"orange_end", "orange_interrupted"}
                  THEN (IF before = "open" THEN "closed" ELSE "broken")
             ELSE IF e \in {"orange_continue", "notification"}
                  THEN (IF before = "open" THEN "open" ELSE "broken")
             ELSE before

\* C35: in the Episode Log, orange_start records and terminating records
\* (orange_end, orange_interrupted) alternate strictly, beginning with
\* orange_start, and every orange_continue or notification record lies between
\* an orange_start and its terminating record, also across stops and restarts
\* of the monitoring process.
C35_WellBracketed ==
    Bracketing(EventsOf(data_csv), Len(data_csv)) # "broken"

----------------------------------------------------------------------------
(* C36 *)

\* both regions meet the three conditions and their scores are equal
Tie36 ==
    /\ Judged2
    /\ Passing = {1, 2}
    /\ score(results[1]) = score(results[2])

\* an idle Detection State and one with an episode active
States36 ==
    {DetectionState("None", NoneTime, FALSE),
     DetectionState("True", now - DetectionIntervalSeconds * 100, FALSE)}

AlertEvents36 == {"orange_start", "orange_continue", "notification"}

\* C36: when both regions satisfy all three conditions with equal scores the
\* verdict is green, the region analysed first, and handing that verdict to
\* update_detection_state neither starts nor continues an alert episode.
C36_TieGoesToGreen ==
    Tie36 =>
        /\ results[1].expected_color = "green"
        /\ verdict.judgment = "green"
        /\ \A st \in States36 :
              LET r == update_detection_state(st, verdict.judgment, now, "none")
              IN  /\ r.st.current_state # "True"
                  /\ \A i \in 1..Len(r.rows) : r.rows[i].event_type \notin AlertEvents36
        /\ last.op = "detect" =>
              /\ current_state # "True"
              /\ \A i \in 1..Len(Appended) : Appended[i].event_type \notin AlertEvents36

\* a tie between regions that differ in brightness and pixel count, judged
\* and delivered
C36_Witness ==
    /\ Tie36
    /\ results[1].brightness # results[2].brightness
    /\ results[1].expected_pixels # results[2].expected_pixels
    /\ results[2].expected_color = "orange"
    /\ last.op = "detect"
    /\ verdict.judgment = "green"
    /\ EventsOf(Appended) = <<"green_detection">>

----------------------------------------------------------------------------
(* Duration reports: analyze_orange_durations (main.py:1228-1289) and      *)
(* load_orange_durations (app.py:1102-1128), both through csv.DictReader.  *)

\* float(row['duration_seconds']) of a one-decimal text, in tenths
DurationEntry(r) == [duration |-> r.duration_seconds, mode |-> r.debug_mode]

\* the rows both readers get; in a file without the header line the first
\* record is taken for the field names and row['event_type'] raises KeyError
\* on the next one, which both functions catch
ReadableRows == IF csv_exists /\ csv_header THEN data_csv ELSE <<>>

\* main.py:1237-1246
analyze_orange_durations ==
    LET kept == SelectSeq(ReadableRows,
                          LAMBDA r : r.event_type = "orange_end" /\ r.duration_seconds > 0)
    IN  [i \in 1..Len(kept) |-> DurationEntry(kept[i])]

\* mutant: the dashboard keeps the records of both modes
load_orange_durations_both_modes ==
    LET kept == SelectSeq(ReadableRows,
                          LAMBDA r : r.event_type = "orange_end" /\ r.duration_seconds > 0)
    IN  [i \in 1..Len(kept) |-> DurationEntry(kept[i])]

\* app.py:1110-1125
load_orange_durations ==
    LET kept == SelectSeq(ReadableRows,
                          LAMBDA r : /\ r.event_type = "orange_end"
                                     /\ r.duration_seconds > 0
                                     /\ r.debug_mode = "normal")
    IN  [i \in 1..Len(kept) |-> DurationEntry(kept[i])]

----------------------------------------------------------------------------
(* C37 *)

\* the orange_end records of the log with positive duration, in log order
PositiveEnds ==
    LET at == {i \in 1..Len(data_csv) :
                  data_csv[i].event_type = "orange_end" /\ data_csv[i].duration_seconds > 0}
        RECURSIVE InOrder(_)
        InOrder(n) ==
            IF n = 0 THEN <<>>
            ELSE IF n \in at THEN Append(InOrder(n - 1), DurationEntry(data_csv[n]))
            ELSE InOrder(n - 1)
    IN  InOrder(Len(data_csv))

\* C37 as stated: both reports work on exactly the orange_end records with
\* positive duration, in log order, and so on the same records.
C37_SameRecords ==
    /\ analyze_orange_durations = PositiveEnds
    /\ load_orange_durations = PositiveEnds

\* C37 (amended): from a log that has its header line the command-line report
\* takes exactly the orange_end records with positive duration, in log order,
\* and the dashboard takes those of them that were written in normal mode;
\* from a log without the header line both take nothing.
C37_DashboardTakesNormalMode ==
    /\ (csv_exists /\ csv_header) =>
          /\ analyze_orange_durations = PositiveEnds
          /\ load_orange_durations = SelectSeq(PositiveEnds, LAMBDA d : d.mode = "normal")
    /\ ~(csv_exists /\ csv_header) =>
          /\ analyze_orange_durations = <<>>
          /\ load_orange_durations = <<>>

\* a log with its header line, an episode ended in normal mode and one ended
\* in debug mode
C37_Witness ==
    /\ csv_exists /\ csv_header
    /\ Len(load_orange_durations) >= 1
    /\ Len(analyze_orange_durations) > Len(load_orange_durations)
    /\ Judged("green") /\ WasActive
    /\ EventsOf(Appended) = <<"orange_end">>
    /\ Appended[1].debug_mode = "debug"

----------------------------------------------------------------------------
(* streaming/current_frame.jpg between two processes: cv2.imwrite in       *)
(* save_frame_for_web (main.py:329-351) opens the file itself for writing, *)
(* which empties it, and writes the encoded image piece by piece; the      *)
(* dashboard opens the same path and reads what is there (app.py:332-334,  *)
(* 968-970).  Neither side locks the file or renames a finished copy into  *)
(* place.  An image is ChunksPerFrame pieces, each tagged with its frame.   *)

ChunksPerFrame == 3

MaxFrames == 4

InitFrameFile ==
    /\ InitAside({"frame_file"})
    /\ frame_file = [content |-> <<>>, writing |-> 0, frames |-> 0, read |-> <<>>]

FrameFileStep ==
    UNCHANGED <<main_vars, extractor, settings_api, startup, frame_feed, shutdown,
                dashboard, classifier, supervisor, config_file>>

\* main.py:338-339: imwrite opens current_frame.jpg for writing
imwrite_open ==
    /\ frame_file.writing = 0
    /\ frame_file.frames < MaxFrames
    /\ frame_file' = [frame_file EXCEPT !.content = <<>>, !.writing = frame_file.frames + 1]
    /\ FrameFileStep

\* the encoder's output reaches the file
imwrite_write ==
    /\ frame_file.writing # 0
    /\ Len(frame_file.content) < ChunksPerFrame
    /\ frame_file' = [frame_file EXCEPT !.content = Append(@, frame_file.writing)]
    /\ FrameFileStep

\* imwrite returns
imwrite_close ==
    /\ frame_file.writing # 0
    /\ Len(frame_file.content) = ChunksPerFrame
    /\ frame_file' = [frame_file EXCEPT !.writing = 0, !.frames = frame_file.writing]
    /\ FrameFileStep

\* app.py:321, 332-334 and 956, 968-970: the file exists; open(path, 'rb')
\* and f.read() return the bytes in it
read_current_frame ==
    /\ frame_file.frames > 0 \/ frame_file.writing # 0
    /\ frame_file.read = <<>>
    /\ frame_file' = [frame_file EXCEPT !.read = <<frame_file.content>>]
    /\ FrameFileStep

\* app.py:336, 972: the response leaves
ReturnResponse ==
    /\ frame_file.read # <<>>
    /\ frame_file' = [frame_file EXCEPT !.read = <<>>]
    /\ FrameFileStep

NextFrameFile ==
    \/ imwrite_open
    \/ imwrite_write
    \/ imwrite_close
    \/ read_current_frame
    \/ ReturnResponse

SpecFrameFile == InitFrameFile /\ [][NextFrameFile]_vars

----------------------------------------------------------------------------
(* C38 *)

\* C38: what a dashboard request reads from current_frame.jpg is always one
\* complete image, never a write of the monitoring process half-done.
C38_NeverPartialFrame ==
    frame_file.read # <<>> =>
        /\ Len(frame_file.read[1]) = ChunksPerFrame
        /\ \A i \in 1..ChunksPerFrame : frame_file.read[1][i] = frame_file.read[1][1]

----------------------------------------------------------------------------
(* The live loop some cycles into a run: CyclesBefore successful cycles    *)
(* with a green verdict have been made, debug mode on.                     *)

CyclesBefore == 4

RECURSIVE Repeated(_, _)
Repeated(s, n) == IF n = 0 THEN <<>> ELSE Repeated(s, n - 1) \o s

\* main.py:446 and 469-470: the two lines a successful cycle adds
SuccessfulCycleLines == <<"DETECTION", "RESULT">>

GreenDetectionRow ==
    [event_type |-> "green_detection", detection_result |-> "green",
     duration_seconds |-> 0, debug_mode |-> "debug"]

InitLongRun ==
    /\ pc = "live"
    /\ debug_mode = TRUE
    /\ now = DetectionIntervalSeconds * 100
                + (CyclesBefore - 1) * DebugDetectionIntervalSeconds * 100
    /\ current_state = "None"
    /\ orange_detection_start_time = NoneTime
    /\ notification_sent = FALSE
    /\ last_detection_time = now
    /\ sleep_start = 0
    /\ detection_logs = Repeated(SuccessfulCycleLines, CyclesBefore)
    /\ csv_exists = TRUE
    /\ csv_header = TRUE
    /\ data_csv = Repeated(<<GreenDetectionRow>>, CyclesBefore)
    /\ notifier_calls = <<>>
    /\ ticks = 0
    /\ delays = 0
    /\ orange_run_start = NoneTime
    /\ in_flight = NoCall
    /\ camera = [c \in Components |-> "off"]
    /\ camera_report = "none"
    /\ settings = ConfiguredSettings
    /\ twin = NoTwin
    /\ results = <<>>
    /\ verdict = NoVerdict
    /\ verdict_again = NoVerdict
    /\ Idle({})
    /\ last = [InitObs(CyclesBefore) EXCEPT !.at = now]

\* run_camera_with_live_display from inside its loop, main.py:427-531
NextLongRun ==
    \/ LiveCropFail
    \/ LiveIncomplete
    \/ LiveAnalysisRaise
    \/ LiveSaveFail
    \/ \E j \in Verdicts, n \in NotifierOutcomes \cup {"none"} : LiveDetect(j, n)
    \/ LiveFrameReadFail
    \/ LiveQuit
    \/ Tick
    \/ Delay

SpecLongRun == InitLongRun /\ [][NextLongRun]_vars

\* the state InitLongRun describes, as the first run of the program reaches it
LongRunReached ==
    /\ pc = "live"
    /\ debug_mode
    /\ State = Cleared
    /\ last_detection_time = now
    /\ detection_logs = Repeated(SuccessfulCycleLines, CyclesBefore)
    /\ data_csv = Repeated(<<GreenDetectionRow>>, CyclesBefore)
    /\ now = DetectionIntervalSeconds * 100
                + (CyclesBefore - 1) * DebugDetectionIntervalSeconds * 100

----------------------------------------------------------------------------
(* C39 *)

\* the last step was a detection cycle of the live loop, successful or failed
LiveCycleDone ==
    last.mode = "live" /\ last.op \in {"detect", "cycle_error", "save_fail"}

\* C39: after every detection cycle of the live loop, successful or failed,
\* the list of recent detection log lines holds at most 10 entries.
C39_LogsBounded == LiveCycleDone => Len(detection_logs) <= MaxDetectionLogs

====
